---- MODULE Spec2Model ----
(***************************************************************************)
(* Verification model of the call-event backend:                           *)
(*   - services/websocket_manager.py  BroadcastManager (registry,          *)
(*     subscriptions, the two broadcasts),                                 *)
(*   - routers/websockets.py          ws_dashboard (one handler per        *)
(*     dashboard connection),                                              *)
(*   - services/call_service.py       CallService (the four webhook        *)
(*     handlers) over the Call / CallStatusEvent tables of                 *)
(*     database/models.py,                                                 *)
(*   - routers/webhooks.py            the dispatch on message.type.        *)
(*                                                                         *)
(* The server is one asyncio event loop: a coroutine runs without          *)
(* interruption from one `await` that suspends to the next.  Every action  *)
(* below is one such run.                                                  *)
(***************************************************************************)
EXTENDS Integers, Sequences, FiniteSets, TLC

(***************************************************************************)
(* Bounds of the model.                                                    *)
(***************************************************************************)
NumConns == 2        \* dashboard connections that ever connect

(***************************************************************************)
(* Values.                                                                 *)
(***************************************************************************)
None == "<None>"                 \* Python None (also: a key that is absent)
Truthy(x) == x # None /\ x # ""  \* Python truth value of an Optional[str]

Conns == 1..NumConns
Tenants == {"tA", "tB"}
Users == {"u1", "u2"}
Roles == {"admin", "user"}
CallIds == {"c1", "c2"}
SubIds == {"c1"}                 \* call ids the dashboards subscribe to

\* The UserContext a dashboard connection can authenticate as.
Contexts == [user_id : Users, role : Roles, tenant_id : Tenants \cup {None}]
NoContext == [user_id |-> None, role |-> None, tenant_id |-> None]

Min(S) == CHOOSE x \in S : \A y \in S : x <= y

VARIABLES
    dashboard_clients,  \* BroadcastManager.dashboard_clients: the dict's entry
                        \* array, in insertion order; a deleted key leaves a
                        \* dead slot (live = FALSE)
    subscriptions,      \* BroadcastManager.subscriptions: ws -> set of call ids
    wsPc,               \* position of each ws_dashboard handler
    wsCtx,              \* current_user of each ws_dashboard handler
    alive,              \* whether the socket of a connection is still open
    bc,                 \* the broadcast call in progress (or the last one)
    recv,               \* per connection: sends of the current broadcast that
                        \* completed
    stable,             \* history: the connections registered and eligible
                        \* without interruption since the broadcast started
    calls,              \* the committed Call table, row by row
    events,             \* the committed CallStatusEvent table, row by row
    hs,                 \* the webhook requests: position, input, session
    clock,              \* datetime.utcnow(), one tick per run of a coroutine
    bcLog,              \* the broadcast calls the services have made
    stalled,            \* the connections whose peer has stopped reading while
                        \* the socket stays open
    pending,            \* per webhook handler, the broadcast calls it has still
                        \* to make once the one it awaits is over
    relay,              \* the audio relay session of /ws/listen/{call_id}
    relay2,             \* the relay session of a second listener connection
    reducer,            \* a live transcript, the fragments merged into it and,
                        \* for each, whether it was taken for the first chunk
    scorer              \* a sentiment state and the utterances scored into it

tableVars == <<calls, events, hs, clock, bcLog>>
connVars == <<dashboard_clients, subscriptions, wsPc, wsCtx, alive, bc, recv, stable>>

\* The relay session before its connection arrives.
IdleRelay ==
    [pc |-> "new", user |-> [id |-> None, client_id |-> None, role |-> None],
     call_id |-> None, down |-> "none", code |-> 0, up |-> "none", attempts |-> 0,
     fwd |-> "none", to_client |-> 0, to_upstream |-> 0]

\* The live transcript before any fragment.
IdleReducer ==
    [live |-> <<"<None>">>, chunk |-> <<"<None>">>, prev |-> <<"<None>">>, frags |-> <<>>,
     first |-> <<>>]

\* update_call_sentiment, lines 66-79: the initial state, before any utterance.
IdleScorer ==
    [state |-> [score |-> 0, sentiment |-> "Not Enuf Data", confidence_e4 |-> 0,
                user_message_count |-> 0, total_user_words |-> 0,
                signals |-> [positive_hits |-> <<>>, negative_hits |-> <<>>,
                             neutral_hits |-> <<>>, engagement_hits |-> <<>>]],
     said |-> <<>>]

\* The inputs and results of the pure functions.
unitVars == <<reducer, scorer>>

\* What is neither a table of the services nor the registry and its handlers.
otherVars == <<stalled, pending, relay, relay2, unitVars>>

\* What the broadcasts and the dashboard handlers leave alone.
svcVars == <<tableVars, otherVars>>

\* What the webhook handlers leave alone.
mgrVars == <<connVars, otherVars>>

-----------------------------------------------------------------------------
(***************************************************************************)
(* BroadcastManager: registry and subscriptions.                           *)
(***************************************************************************)

\* `ws in self.dashboard_clients`
Registered(dc) == {dc[i].ws : i \in {j \in 1..Len(dc) : dc[j].live}}

\* len(self.dashboard_clients)
LiveCount(dc) == Cardinality({i \in 1..Len(dc) : dc[i].live})

\* register_dashboard, after `await ws.accept()`: a new key goes to the end.
RegisterEntry(dc, ws, user_id, role, tenant_id) ==
    Append(dc, [ws |-> ws, live |-> TRUE,
                meta |-> [user_id |-> user_id, role |-> role, tenant_id |-> tenant_id]])

\* A deregistration that forgets the subscription map.
Unregister_KeepSubscriptions(dc, subs, ws) ==
    [clients |-> [i \in 1..Len(dc) |->
                    IF dc[i].ws = ws THEN [dc[i] EXCEPT !.live = FALSE] ELSE dc[i]],
     subs |-> subs]

\* unregister_dashboard: both deletions are guarded by a membership test.
Unregister(dc, subs, ws) ==
    [clients |-> [i \in 1..Len(dc) |->
                    IF dc[i].ws = ws THEN [dc[i] EXCEPT !.live = FALSE] ELSE dc[i]],
     subs |-> [w \in (DOMAIN subs) \ {ws} |-> subs[w]]]

\* subscribe: self.subscriptions is a defaultdict(set), so the entry is
\* created when the key is missing, whatever the registry holds.
Subscribe(subs, ws, call_id) ==
    [w \in (DOMAIN subs) \cup {ws} |->
        IF w = ws
        THEN (IF ws \in DOMAIN subs THEN subs[ws] ELSE {}) \cup {call_id}
        ELSE subs[w]]

\* unsubscribe: only when the key exists.
Unsubscribe(subs, ws, call_id) ==
    IF ws \in DOMAIN subs
    THEN [subs EXCEPT ![ws] = @ \ {call_id}]
    ELSE subs

\* self.subscriptions.get(ws, set())
SubsOf(subs, ws) == IF ws \in DOMAIN subs THEN subs[ws] ELSE {}

\* A tenant check that lets admins through.
ShouldSend_AdminAnyTenant(meta, message, user_id) ==
    LET client_role == IF Truthy(meta.role) THEN meta.role ELSE "user"
    IN  IF client_role = "admin" THEN TRUE
        ELSE IF Truthy(message.clientId) /\ Truthy(meta.tenant_id)
                /\ message.clientId # meta.tenant_id THEN FALSE
        ELSE IF user_id = None THEN TRUE
        ELSE meta.user_id = user_id

\* broadcast_dashboard, the filter computed for one registry entry.
ShouldSend(meta, message, user_id) ==
    LET client_user_id == meta.user_id
        client_role == IF Truthy(meta.role) THEN meta.role ELSE "user"
        client_tenant_id == meta.tenant_id
        msg_tenant_id == message.clientId
    IN  IF Truthy(msg_tenant_id) /\ Truthy(client_tenant_id)
           /\ msg_tenant_id # client_tenant_id
        THEN FALSE
        ELSE IF user_id = None THEN TRUE
        ELSE IF client_role = "admin" THEN TRUE
        ELSE IF client_user_id = user_id THEN TRUE
        ELSE FALSE

\* The condition under which a broadcast sends to the entry it is visiting.
Eligible(b, entry, subs) ==
    IF b.kind = "transcript"
    THEN b.call_id \in SubsOf(subs, entry.ws)
    ELSE ShouldSend(entry.meta, b.message, b.user_id)

-----------------------------------------------------------------------------
(***************************************************************************)
(* The Call table as the dashboard handler reads it.                       *)
(***************************************************************************)

\* Optional[str] holding text: a sequence of characters, or NoneStr.
NoneStr == <<"<None>">>
TruthyStr(s) == s # NoneStr /\ s # <<>>

\* An Optional[datetime] is <<>> (None) or <<[t, aware]>>: utcnow() has no
\* tzinfo, fromisoformat of a string with a Z or an offset has one.
Dt(t, aware) == << [t |-> t, aware |-> aware] >>

\* The value a DateTime column gives back: no tzinfo.
Naive(d) == IF d = <<>> THEN d ELSE Dt(d[1].t, FALSE)

\* The sentiment and disposition labels of a Call and its sentiment-state
\* history, which CallService, SentimentService and routers/calls.py read and
\* write and scripts/add_missing_columns.py adds to the table; class Call of
\* database/models.py does not list them.
LabelColumns == [sentiment |-> None, disposition |-> None, sentiment_state |-> <<>>]

\* class Call: Call(id=call_id, client_id=client_id) at time now.  created_at
\* and updated_at default to utcnow(), every other column to None.  Optional
\* numbers are <<>> (None) or <<n>>; summary is <<>> or <<text>> for
\* {"summary": text}.
DeclaredCall(call_id, client_id, now) ==
    [id |-> call_id, client_id |-> client_id,
     phone_number |-> None, status |-> None,
     started_at |-> <<>>, ended_at |-> <<>>, cost |-> <<>>,
     user_id |-> None, username |-> None, duration |-> <<>>,
     listen_url |-> None, control_url |-> None,
     live_transcript |-> NoneStr, final_transcript |-> NoneStr,
     recording_url |-> None, summary |-> <<>>,
     created_at |-> Dt(now, FALSE), updated_at |-> Dt(now, FALSE)]

NewCall(call_id, client_id, now) == DeclaredCall(call_id, client_id, now) @@ LabelColumns

\* Rows of the table with this primary key.
RowsOf(tbl, call_id) == {i \in 1..Len(tbl) : tbl[i].id = call_id}

\* session.get(Call, call_id) found a row.
HasCall(tbl, call_id) == RowsOf(tbl, call_id) # {}

\* session.get(Call, call_id), when HasCall.
GetCall(tbl, call_id) == tbl[Min(RowsOf(tbl, call_id))]

-----------------------------------------------------------------------------
(***************************************************************************)
(* BroadcastManager: the two broadcasts.  Both iterate                     *)
(* self.dashboard_clients.items() and await ws.send_json inside the loop,  *)
(* so the dict can change between two steps of the iterator.  The iterator *)
(* is CPython's: it remembers the size of the dict (di_used), the slot it  *)
(* reached (di_pos) and how many items it still expects (di_len), and it   *)
(* raises RuntimeError when the size differs or an unexpected item shows.  *)
(***************************************************************************)

IdleBroadcast ==
    [kind |-> "none", message |-> [type |-> None, clientId |-> None],
     user_id |-> None, call_id |-> None, pc |-> "idle",
     di_used |-> 0, di_pos |-> 0, di_len |-> 0, cur |-> 0, dead |-> <<>>]

\* First live slot at or after `from`, 0 when there is none.
NextLive(dc, from) ==
    LET S == {i \in from..Len(dc) : dc[i].live}
    IN  IF S = {} THEN 0 ELSE Min(S)

\* The for loop from the point it (re)starts to its next `await ws.send_json`
\* (pc "sending"), to its end (pc "loop_done") or to the iterator's
\* RuntimeError (pc "raised").
RECURSIVE RunLoop(_, _, _)
RunLoop(b, dc, subs) ==
    IF LiveCount(dc) # b.di_used
    THEN [b EXCEPT !.pc = "raised", !.cur = 0]
    ELSE LET i == NextLive(dc, b.di_pos + 1)
         IN  IF i = 0 THEN [b EXCEPT !.pc = "loop_done", !.cur = 0]
             ELSE IF b.di_len = 0 THEN [b EXCEPT !.pc = "raised", !.cur = 0]
             ELSE LET b2 == [b EXCEPT !.di_pos = i, !.di_len = @ - 1]
                  IN  IF Eligible(b2, dc[i], subs)
                      THEN [b2 EXCEPT !.pc = "sending", !.cur = dc[i].ws]
                      ELSE RunLoop(b2, dc, subs)

\* for ws in dead: await self.unregister_dashboard(ws)
\* (unregister_dashboard never suspends, so the loop is one run).
RECURSIVE UnregisterAll(_, _, _)
UnregisterAll(dc, subs, dead) ==
    IF dead = <<>> THEN [clients |-> dc, subs |-> subs]
    ELSE LET r == Unregister(dc, subs, Head(dead))
         IN  UnregisterAll(r.clients, r.subs, Tail(dead))

\* The broadcast coroutine runs on from state b: the loop up to its next
\* suspension, and after the loop the removal of the dead connections.
Advance(b) ==
    LET b2 == RunLoop(b, dashboard_clients, subscriptions)
        r  == IF b2.pc = "loop_done"
              THEN UnregisterAll(dashboard_clients, subscriptions, b2.dead)
              ELSE [clients |-> dashboard_clients, subs |-> subscriptions]
    IN  /\ bc' = IF b2.pc = "loop_done" THEN [b2 EXCEPT !.pc = "returned"] ELSE b2
        /\ dashboard_clients' = r.clients
        /\ subscriptions' = r.subs

\* The connections a broadcast b would send to in registry dc.
EligibleSet(b, dc, subs) ==
    {dc[i].ws : i \in {j \in 1..Len(dc) : dc[j].live /\ Eligible(b, dc[j], subs)}}

\* A broadcast coroutine is entered: dead = [], then the loop.
Enter(b) ==
    /\ stable' = EligibleSet(b, dashboard_clients, subscriptions)
    /\ Advance([b EXCEPT !.di_used = LiveCount(dashboard_clients),
                         !.di_len = LiveCount(dashboard_clients),
                         !.di_pos = 0, !.dead = <<>>, !.cur = 0])

\* The start of a broadcast call.
StartBroadcast(b) ==
    /\ bc.pc = "idle"
    /\ recv' = recv
    /\ Enter(b)
    /\ UNCHANGED <<wsPc, wsCtx, alive, svcVars>>

\* broadcast_dashboard(message, user_id)
BroadcastDashboard(message, user_id) ==
    StartBroadcast([IdleBroadcast EXCEPT !.kind = "dashboard", !.message = message,
                                         !.user_id = user_id])

\* broadcast_transcript(message, call_id)
BroadcastTranscript(message, call_id) ==
    StartBroadcast([IdleBroadcast EXCEPT !.kind = "transcript", !.message = message,
                                         !.call_id = call_id])

\* `await ws.send_json(message)` completes: the loop goes on.
SendReturns ==
    /\ bc.pc = "sending"
    /\ alive[bc.cur]
    /\ bc.cur \notin stalled
    /\ recv' = [recv EXCEPT ![bc.cur] = @ + 1]
    /\ Advance(bc)
    /\ UNCHANGED <<wsPc, wsCtx, alive, stable, svcVars>>

\* `await ws.send_json(message)` raises: dead.append(ws), the loop goes on.
SendRaises ==
    /\ bc.pc = "sending"
    /\ ~alive[bc.cur]
    /\ Advance([bc EXCEPT !.dead = Append(@, bc.cur)])
    /\ UNCHANGED <<wsPc, wsCtx, alive, recv, stable, svcVars>>

\* The broadcast call is over: it returned to the service that awaited it,
\* or its RuntimeError propagated there.
BroadcastExit ==
    /\ bc.pc \in {"returned", "raised"}
    /\ bc' = IdleBroadcast
    /\ recv' = [w \in Conns |-> 0]
    /\ stable' = {}
    /\ UNCHANGED <<dashboard_clients, subscriptions, wsPc, wsCtx, alive, svcVars>>

-----------------------------------------------------------------------------
(***************************************************************************)
(* ws_dashboard: the handler of one dashboard connection.                  *)
(*   new -> accept -> hello -> recv <-> snapshot -> closed                 *)
(***************************************************************************)

\* Other coroutines run while no broadcast runs or while it is suspended in a
\* send; the frame of a finished broadcast is released before they go on.
Quiet == bc.pc \in {"idle", "sending"}

\* A registry or subscription change made while a broadcast is suspended
\* ends the uninterrupted eligibility of the connections it touches.
StableAfter(dc, subs) ==
    IF bc.pc = "sending" THEN stable \cap EligibleSet(bc, dc, subs) ELSE stable

\* The client connects, get_current_user_ws yields the UserContext, and
\* register_dashboard stores the entry once `await ws.accept()` has returned;
\* the handler goes on to `await ws.send_json(hello)`.  (Connections are
\* numbered in the order they register.  A connection whose accept raises is
\* never registered and is left out.)
WsRegister(w, ctx) ==
    /\ Quiet
    /\ wsPc[w] = "new"
    /\ \A v \in Conns : v < w => wsPc[v] # "new"
    /\ alive[w]
    /\ wsCtx' = [wsCtx EXCEPT ![w] = ctx]
    /\ dashboard_clients' = RegisterEntry(dashboard_clients, w, ctx.user_id,
                                          ctx.role, ctx.tenant_id)
    /\ wsPc' = [wsPc EXCEPT ![w] = "hello"]
    /\ stable' = StableAfter(dashboard_clients', subscriptions)
    /\ UNCHANGED <<subscriptions, alive, bc, recv, svcVars>>

\* The hello message is sent; the handler enters its receive loop.
WsHello(w) ==
    /\ Quiet
    /\ wsPc[w] = "hello"
    /\ alive[w]
    /\ wsPc' = [wsPc EXCEPT ![w] = "recv"]
    /\ UNCHANGED <<dashboard_clients, subscriptions, wsCtx, alive, bc, recv, stable, svcVars>>

\* The hello send raises.  It is outside the try block: the handler ends
\* without unregister_dashboard.
WsHelloFails(w) ==
    /\ Quiet
    /\ wsPc[w] = "hello"
    /\ ~alive[w]
    /\ wsPc' = [wsPc EXCEPT ![w] = "closed"]
    /\ UNCHANGED <<dashboard_clients, subscriptions, wsCtx, alive, bc, recv, stable, svcVars>>

\* receive_json returns {"type": "subscribe", "callId": call_id} (a message
\* that arrived before the socket broke is still delivered): subscribe, then
\* look the call up and, if it has a live transcript, send the snapshot.
WsSubscribe(w, call_id) ==
    /\ Quiet
    /\ wsPc[w] = "recv"
    /\ subscriptions' = Subscribe(subscriptions, w, call_id)
    /\ wsPc' = [wsPc EXCEPT ![w] =
                  IF HasCall(calls, call_id)
                     /\ TruthyStr(GetCall(calls, call_id).live_transcript)
                  THEN "snapshot" ELSE "recv"]
    /\ stable' = StableAfter(dashboard_clients, subscriptions')
    /\ UNCHANGED <<dashboard_clients, wsCtx, alive, bc, recv, svcVars>>

\* The snapshot send returns.
WsSnapshot(w) ==
    /\ Quiet
    /\ wsPc[w] = "snapshot"
    /\ alive[w]
    /\ wsPc' = [wsPc EXCEPT ![w] = "recv"]
    /\ UNCHANGED <<dashboard_clients, subscriptions, wsCtx, alive, bc, recv, stable, svcVars>>

\* The handler leaves its loop through one of the two except clauses.
WsLeave(w) ==
    LET r == Unregister(dashboard_clients, subscriptions, w)
    IN  /\ dashboard_clients' = r.clients
        /\ subscriptions' = r.subs
        /\ wsPc' = [wsPc EXCEPT ![w] = "closed"]
        /\ alive' = [alive EXCEPT ![w] = FALSE]
        /\ stable' = StableAfter(r.clients, r.subs)
        /\ UNCHANGED <<wsCtx, bc, recv, svcVars>>

\* The snapshot send raises: except Exception.
WsSnapshotFails(w) ==
    /\ Quiet
    /\ wsPc[w] = "snapshot"
    /\ ~alive[w]
    /\ WsLeave(w)

\* receive_json returns {"type": "unsubscribe", "callId": call_id}.
WsUnsubscribe(w, call_id) ==
    /\ Quiet
    /\ wsPc[w] = "recv"
    /\ subscriptions' = Unsubscribe(subscriptions, w, call_id)
    /\ stable' = StableAfter(dashboard_clients, subscriptions')
    /\ UNCHANGED <<dashboard_clients, wsPc, wsCtx, alive, bc, recv, svcVars>>

\* receive_json raises WebSocketDisconnect.
WsDisconnect(w) ==
    /\ Quiet
    /\ wsPc[w] = "recv"
    /\ ~alive[w]
    /\ WsLeave(w)

\* receive_json raises something else (a frame that is no JSON).
WsReceiveError(w) ==
    /\ Quiet
    /\ wsPc[w] = "recv"
    /\ alive[w]
    /\ WsLeave(w)

\* The peer goes away, or the socket breaks.
ClientDrop(w) ==
    /\ Quiet
    /\ wsPc[w] \notin {"new", "closed"}
    /\ alive[w]
    /\ alive' = [alive EXCEPT ![w] = FALSE]
    /\ UNCHANGED <<dashboard_clients, subscriptions, wsPc, wsCtx, bc, recv, stable, svcVars>>

-----------------------------------------------------------------------------
(***************************************************************************)
(* The webhook payloads.  A message is the JSON object of the request,     *)
(* flattened: one field per key the handlers read.  A string key is None   *)
(* when absent; a text is a sequence of characters or NoneStr; a timestamp *)
(* key is absent, an ISO-8601 string of instant t, or an unparsable        *)
(* string; durationSeconds is absent, a number or a non-numeric string.    *)
(***************************************************************************)

AbsentTime == [k |-> "absent", t |-> 0]
IsoTime(t) == [k |-> "iso", t |-> t]              \* "...T00:00:0tZ"
IsoTimeNoZone(t) == [k |-> "iso_naive", t |-> t]  \* "...T00:00:0t"
BadTime == [k |-> "bad", t |-> 0]

AbsentNumber == [k |-> "absent", v |-> 0]
Number(v) == [k |-> "number", v |-> v]
BadNumber == [k |-> "bad", v |-> 0]

\* A payload with nothing but its type.  `call` tells whether the "call" key
\* is absent, null or an object; call_id is call.id when it is an object.
BlankMessage(type) ==
    [type |-> type,
     call |-> "absent", call_id |-> None,
     status |-> None,
     customer_number |-> None,              \* customer.number
     monitor_listenUrl |-> None,            \* call.monitor.listenUrl
     monitor_controlUrl |-> None,           \* call.monitor.controlUrl
     call_startedAt |-> AbsentTime,         \* call.startedAt
     call_phoneNumber |-> None,             \* call.phoneNumber or call.from
     call_listenUrl |-> None,               \* call.listenUrl or call.listen_url
     call_controlUrl |-> None,              \* call.controlUrl or call.control_url
     transcript |-> NoneStr,                \* transcript
     role |-> None,                         \* role
     artifact_transcript |-> NoneStr,       \* artifact.transcript
     recordingUrl |-> None,                 \* recordingUrl or artifact.recordingUrl
     structuredOutputs |-> <<>>,            \* artifact.structuredOutputs, in order
     startedAt |-> AbsentTime,
     endedAt |-> AbsentTime,
     durationSeconds |-> AbsentNumber,
     analysis_durationSeconds |-> AbsentNumber,
     cost |-> AbsentNumber,
     summary |-> None]                      \* summary or analysis.summary

\* A payload about a call.
CallMessage(type, call_id) ==
    [BlankMessage(type) EXCEPT !.call = "object", !.call_id = call_id]

-----------------------------------------------------------------------------
(***************************************************************************)
(* Text, as Python's str methods compute it.                               *)
(***************************************************************************)
Max(S) == CHOOSE x \in S : \A y \in S : x >= y

Whitespace == {" ", "\n"}

\* s.strip()
RECURSIVE LStrip(_)
LStrip(s) == IF s # <<>> /\ Head(s) \in Whitespace THEN LStrip(Tail(s)) ELSE s
RECURSIVE RStrip(_)
RStrip(s) ==
    IF s # <<>> /\ s[Len(s)] \in Whitespace THEN RStrip(SubSeq(s, 1, Len(s) - 1)) ELSE s
Strip(s) == RStrip(LStrip(s))

\* s.startswith(p)
StartsWith(s, p) == Len(s) >= Len(p) /\ SubSeq(s, 1, Len(p)) = p

\* s.splitlines()[-1], "" when s has no line.
LastLine(s) ==
    LET t == IF s # <<>> /\ s[Len(s)] = "\n" THEN SubSeq(s, 1, Len(s) - 1) ELSE s
        nl == {i \in 1..Len(t) : t[i] = "\n"}
    IN  IF nl = {} THEN t ELSE SubSeq(t, Max(nl) + 1, Len(t))

PrefixAI == <<"A", "I", ":", " ">>
PrefixUser == <<"U", "s", "e", "r", ":", " ">>

\* (message.get("role") or "").lower(), for the roles the provider sends.
LowerRole(role) ==
    IF ~Truthy(role) THEN ""
    ELSE IF role \in {"assistant", "Assistant"} THEN "assistant"
    ELSE IF role \in {"user", "User"} THEN "user"
    ELSE role

-----------------------------------------------------------------------------
(***************************************************************************)
(* The database session.  session.get reads the committed table; the       *)
(* handler changes its own copy of the row; session.commit writes, in one  *)
(* transaction, the INSERT of a created Call or the UPDATE of the columns  *)
(* the handler changed, and the INSERT of the CallStatusEvent.             *)
(***************************************************************************)

\* A table without a primary key on Call.id.
PrimaryKeyConflict_NoKey(tbl, call_id) == FALSE

\* Call.id is the primary key: an INSERT of an id present in the table fails.
PrimaryKeyConflict(tbl, call_id) == HasCall(tbl, call_id)

\* A lookup that hands the found Call to the tenant of the request.
GetOrCreateCall_TakesTenant(tbl, client_id, call_id, now) ==
    IF HasCall(tbl, call_id)
    THEN [created |-> FALSE, snap |-> GetCall(tbl, call_id),
          call |-> [GetCall(tbl, call_id) EXCEPT !.updated_at = Dt(now, FALSE),
                                                 !.client_id = client_id]]
    ELSE [created |-> TRUE, snap |-> NewCall(call_id, client_id, now),
          call |-> NewCall(call_id, client_id, now)]

\* get_or_create_call: the session's state once it returns.
\*   created: the Call is pending insertion; snap: the row as loaded;
\*   call: the object the handler goes on to change.
GetOrCreateCall(tbl, client_id, call_id, now) ==
    IF HasCall(tbl, call_id)
    THEN [created |-> FALSE, snap |-> GetCall(tbl, call_id),
          call |-> [GetCall(tbl, call_id) EXCEPT !.updated_at = Dt(now, FALSE)]]
    ELSE [created |-> TRUE, snap |-> NewCall(call_id, client_id, now),
          call |-> NewCall(call_id, client_id, now)]

\* The UPDATE of a flush: the columns whose value differs from the loaded one.
UpdateRow(row, snap, call) ==
    [f \in DOMAIN row |-> IF call[f] # snap[f] THEN call[f] ELSE row[f]]

\* An event that keeps the type of the payload only.
NewEvent_TypeOnly(evs, call_id, client_id, status, payload, user_id, now) ==
    [id |-> Len(evs) + 1, call_id |-> call_id, client_id |-> client_id,
     status |-> status, payload |-> BlankMessage(payload.type), user_id |-> user_id,
     created_at |-> Dt(now, FALSE)]

\* CallStatusEvent(call_id=..., client_id=..., status=..., payload=...,
\* user_id=...); created_at defaults to utcnow(), id to the next key.
NewEvent(evs, call_id, client_id, status, payload, user_id, now) ==
    [id |-> Len(evs) + 1, call_id |-> call_id, client_id |-> client_id,
     status |-> status, payload |-> payload, user_id |-> user_id,
     created_at |-> Dt(now, FALSE)]

\* The row as the table keeps it.
Stored(call) ==
    [call EXCEPT !.started_at = Naive(@), !.ended_at = Naive(@)]

\* A commit that writes the event in a transaction of its own, before the Call.
Commit_EventApart(tbl, evs, tx, ev) ==
    IF tx.created /\ PrimaryKeyConflict(tbl, tx.call.id)
    THEN [ok |-> FALSE, calls |-> tbl, events |-> Append(evs, ev)]
    ELSE [ok |-> TRUE,
          calls |-> IF tx.created THEN Append(tbl, Stored(tx.call))
                    ELSE [i \in 1..Len(tbl) |->
                            IF tbl[i].id = tx.call.id
                            THEN UpdateRow(tbl[i], tx.snap, Stored(tx.call)) ELSE tbl[i]],
          events |-> Append(evs, ev)]

\* session.add(status_event); session.commit(): both tables or, when the
\* INSERT of the Call violates the primary key, neither (IntegrityError).
Commit(tbl, evs, tx, ev) ==
    IF tx.created /\ PrimaryKeyConflict(tbl, tx.call.id)
    THEN [ok |-> FALSE, calls |-> tbl, events |-> evs]
    ELSE [ok |-> TRUE,
          calls |-> IF tx.created THEN Append(tbl, Stored(tx.call))
                    ELSE [i \in 1..Len(tbl) |->
                            IF tbl[i].id = tx.call.id
                            THEN UpdateRow(tbl[i], tx.snap, Stored(tx.call)) ELSE tbl[i]],
          events |-> Append(evs, ev)]

-----------------------------------------------------------------------------
(***************************************************************************)
(* CallService: what each handler does to the Call it loaded.              *)
(***************************************************************************)
\* if value: call.field = value
SetIfTruthy(old, new) == IF Truthy(new) THEN new ELSE old

\* if s: try: field = datetime.fromisoformat(s.replace("Z", "+00:00"))
\*        except: (logged or passed)
ParseInto(old, ts) ==
    IF ts.k = "iso" THEN Dt(ts.t, TRUE)
    ELSE IF ts.k = "iso_naive" THEN Dt(ts.t, FALSE)
    ELSE old

\* call_data = message.get("call", {}); call_id = call_data.get("id")
\* (status-update, transcript, generic): None has no .get.
CallIdLookup(m) ==
    [raised |-> m.call = "null",
     id |-> IF m.call = "object" THEN m.call_id ELSE None]

\* call_data = message.get("call", {}) or {} (end-of-call-report).
CallIdLookupOrEmpty(m) ==
    [raised |-> FALSE,
     id |-> IF m.call = "object" THEN m.call_id ELSE None]

\* A handler that assigns whatever the message holds.
StatusUpdateFields_Overwrites(call, m, user_id) ==
    [call EXCEPT !.phone_number = m.customer_number,
                 !.listen_url = m.monitor_listenUrl,
                 !.control_url = m.monitor_controlUrl,
                 !.status = SetIfTruthy(@, m.status),
                 !.started_at = ParseInto(@, m.call_startedAt),
                 !.user_id = SetIfTruthy(@, user_id)]

\* handle_status_update, lines 99-120.
StatusUpdateFields(call, m, user_id) ==
    [call EXCEPT !.phone_number = SetIfTruthy(@, m.customer_number),
                 !.listen_url = SetIfTruthy(@, m.monitor_listenUrl),
                 !.control_url = SetIfTruthy(@, m.monitor_controlUrl),
                 !.status = SetIfTruthy(@, m.status),
                 !.started_at = ParseInto(@, m.call_startedAt),
                 !.user_id = SetIfTruthy(@, user_id)]

\* handle_transcript_update, lines 209-251: the new live transcript and the
\* chunk that was appended (NoneStr when raw_text is empty or missing).
MergeFragment(live_transcript, raw_text, message_role) ==
    LET role == LowerRole(message_role)
        prefix == IF role = "assistant" THEN PrefixAI
                  ELSE IF role = "user" THEN PrefixUser ELSE <<>>
    IN  IF ~TruthyStr(raw_text)
        THEN [live |-> live_transcript, chunk |-> NoneStr]
        ELSE IF TruthyStr(live_transcript)
        THEN LET last_line == LastLine(live_transcript)
                 last_role == IF StartsWith(last_line, PrefixAI) THEN "assistant"
                              ELSE IF StartsWith(last_line, PrefixUser) THEN "user"
                              ELSE None
             IN  IF last_role = role
                 THEN [live |-> live_transcript \o raw_text, chunk |-> raw_text]
                 ELSE [live |-> live_transcript \o <<"\n">> \o Strip(prefix \o raw_text),
                       chunk |-> Strip(prefix \o raw_text)]
        ELSE [live |-> Strip(prefix \o raw_text), chunk |-> Strip(prefix \o raw_text)]

\* A handler that keeps the final transcript in step with the live one.
TranscriptFields_AsFinal(call, m, user_id) ==
    [call EXCEPT !.live_transcript = MergeFragment(@, m.transcript, m.role).live,
                 !.final_transcript = MergeFragment(call.live_transcript, m.transcript,
                                                    m.role).live,
                 !.user_id = SetIfTruthy(@, user_id)]

\* handle_transcript_update, lines 225-256.
TranscriptFields(call, m, user_id) ==
    [call EXCEPT !.live_transcript = MergeFragment(@, m.transcript, m.role).live,
                 !.user_id = SetIfTruthy(@, user_id)]

\* name = (output.get("name") or "").lower().strip(); "disposition" in name
HasDisposition(name) ==
    name \in {"Call Disposition", "disposition", "Sentiment and Disposition"}

\* "sentiment" in name
HasSentiment(name) ==
    name \in {"Customer Sentiment", "sentiment", "Sentiment and Disposition"}

\* The loop over structured_outputs.values(): the [disposition, sentiment]
\* pair it leaves, starting from acc.
RECURSIVE ScanOutputs(_, _)
ScanOutputs(outputs, acc) ==
    IF outputs = <<>> THEN acc
    ELSE LET o == Head(outputs)
         IN  ScanOutputs(Tail(outputs),
                IF ~o.is_dict THEN acc
                ELSE IF HasDisposition(o.name) THEN [acc EXCEPT !.disposition = o.result]
                ELSE IF HasSentiment(o.name) THEN [acc EXCEPT !.sentiment = o.result]
                ELSE acc)

\* duration_seconds = message.get("durationSeconds") or analysis.get("durationSeconds")
DurationSeconds(m) ==
    IF m.durationSeconds.k = "bad" \/ (m.durationSeconds.k = "number" /\ m.durationSeconds.v # 0)
    THEN m.durationSeconds
    ELSE m.analysis_durationSeconds

\* handle_end_of_call_report, lines 345-490, given the Call it loaded, the
\* time and the name under which the recording was stored (None when there
\* was none or it could not be fetched or stored).  raised: the exception
\* that ends the handler before its commit.
EndOfCallFields(call, m, user_id, now, recording_url) ==
    LET c1 == [call EXCEPT !.phone_number = SetIfTruthy(@, m.customer_number),
                           !.listen_url = SetIfTruthy(@, m.monitor_listenUrl),
                           !.control_url = SetIfTruthy(@, m.monitor_controlUrl),
                           !.status = "ended"]
        final_transcript == IF TruthyStr(m.transcript) THEN m.transcript
                            ELSE m.artifact_transcript
        started_at == ParseInto(c1.started_at, m.startedAt)
        parsed_end == ParseInto(c1.ended_at, m.endedAt)
        ended_at == IF parsed_end # <<>> THEN parsed_end ELSE Dt(now, FALSE)
        found == ScanOutputs(m.structuredOutputs, [disposition |-> None, sentiment |-> None])
        duration_seconds == DurationSeconds(m)
        c2 == [c1 EXCEPT !.started_at = started_at,
                         !.ended_at = ended_at,
                         !.sentiment = SetIfTruthy(@, found.sentiment),
                         !.disposition = SetIfTruthy(@, found.disposition),
                         !.final_transcript = IF TruthyStr(final_transcript)
                                              THEN Strip(final_transcript) ELSE @,
                         !.cost = IF m.cost.k = "number" THEN <<m.cost.v>> ELSE @,
                         !.recording_url = SetIfTruthy(@, recording_url),
                         !.summary = <<m.summary>>,
                         !.user_id = SetIfTruthy(@, user_id),
                         !.updated_at = Dt(now, FALSE)]
    IN  IF duration_seconds.k = "bad"
        THEN [raised |-> "ValueError", call |-> c2]
        ELSE IF duration_seconds.k = "number"
        THEN [raised |-> None, call |-> [c2 EXCEPT !.duration = <<duration_seconds.v>>]]
        ELSE IF started_at # <<>> /\ started_at[1].aware # ended_at[1].aware
        THEN [raised |-> "TypeError", call |-> c2]
        ELSE IF started_at # <<>>
        THEN [raised |-> None,
              call |-> [c2 EXCEPT !.duration = <<ended_at[1].t - started_at[1].t>>]]
        ELSE [raised |-> None, call |-> c2]

\* handle_generic_event, lines 556-573.
GenericFields(call, m) ==
    [call EXCEPT !.phone_number = SetIfTruthy(@, m.call_phoneNumber),
                 !.listen_url = SetIfTruthy(@, m.call_listenUrl),
                 !.control_url = SetIfTruthy(@, m.call_controlUrl)]

-----------------------------------------------------------------------------
(***************************************************************************)
(* routers/webhooks.py and CallService: the handling of one webhook        *)
(* request.  No handler suspends between loading the Call and its commit,  *)
(* except handle_end_of_call_report, which awaits the download of the      *)
(* recording in between.  The handlers below run while no dashboard is     *)
(* connected, so the broadcasts they await find nobody and return at once; *)
(* bcLog records each call.                                                *)
(***************************************************************************)
MaxEvents == 2     \* webhook requests that arrive

Handlers == 1..MaxEvents

NoResult ==
    [state |-> "none", ok |-> FALSE, type |-> None, call_id |-> None,
     created |-> FALSE, status_event_id |-> 0, error |-> None]

NoTx == [created |-> FALSE, snap |-> NewCall(None, None, 0), call |-> NewCall(None, None, 0)]

IdleHandler ==
    [pc |-> "idle", client_id |-> None, message |-> BlankMessage(None),
     tx |-> NoTx, result |-> NoResult]

\* msg_type = (message.get("type") or "").lower(), then the if/elif chain.
Dispatch(m) ==
    LET msg_type == IF ~Truthy(m.type) THEN ""
                    ELSE IF m.type = "Status-Update" THEN "status-update"
                    ELSE m.type
    IN  IF msg_type = "status-update" THEN "status-update"
        ELSE IF msg_type = "transcript" THEN "transcript"
        ELSE IF msg_type = "end-of-call-report" THEN "end-of-call-report"
        ELSE "generic"

\* to_iso_utc(dt): None stays None, a naive datetime is taken as UTC.
ToIsoUtc(d) == IF d = <<>> THEN d ELSE Dt(d[1].t, TRUE)

\* The "call" object that the three call-upsert messages share.
UpsertCall(call) ==
    [id |-> call.id, status |-> call.status, phoneNumber |-> call.phone_number,
     startedAt |-> IF ToIsoUtc(call.started_at) # <<>> THEN ToIsoUtc(call.started_at)
                   ELSE ToIsoUtc(call.created_at),
     endedAt |-> ToIsoUtc(call.ended_at),
     hasListenUrl |-> Truthy(call.listen_url),
     hasTranscript |-> TruthyStr(call.final_transcript),
     hasFinalTranscript |-> TruthyStr(call.final_transcript),
     hasLiveTranscript |-> TruthyStr(call.live_transcript),
     hasRecording |-> Truthy(call.recording_url),
     username |-> call.username, duration |-> call.duration,
     sentiment |-> call.sentiment, disposition |-> call.disposition]

\* A call-upsert that carries the listen endpoint itself.
UpsertMessage_WithListenUrl(client_id, call) ==
    [type |-> "call-upsert", clientId |-> client_id,
     call |-> UpsertCall(call) @@ [listenUrl |-> call.listen_url]]

\* The call-upsert message of handle_status_update.
UpsertMessage(client_id, call) ==
    [type |-> "call-upsert", clientId |-> client_id, call |-> UpsertCall(call)]

\* The call-upsert message of handle_transcript_update (first chunk).
FirstChunkUpsert(client_id, call) ==
    [type |-> "call-upsert", clientId |-> client_id,
     call |-> [UpsertCall(call) EXCEPT !.hasLiveTranscript = TRUE]
                 @@ [created_at |-> ToIsoUtc(call.created_at)]]

\* The call-upsert message of handle_end_of_call_report.
EndOfCallUpsert(client_id, call) ==
    [type |-> "call-upsert", clientId |-> client_id,
     call |-> [UpsertCall(call) EXCEPT !.startedAt = ToIsoUtc(call.started_at)]
                 @@ [finalTranscript |-> call.final_transcript,
                     liveTranscript |-> call.live_transcript,
                     recordingUrl |-> call.recording_url]]

\* The transcript-update message of handle_transcript_update.
TranscriptUpdate(client_id, call, transcript_text) ==
    [type |-> "transcript-update", clientId |-> client_id, callId |-> call.id,
     append |-> transcript_text, fullTranscript |-> call.live_transcript]

\* The transcript-update message ws_dashboard sends after a subscribe.
SnapshotMessage(call) ==
    [type |-> "transcript-update", clientId |-> "system", callId |-> call.id,
     append |-> NoneStr, fullTranscript |-> call.live_transcript]

\* The sentiment-update message of update_call_sentiment.
SentimentMessage(call, updated_state) ==
    [type |-> "sentiment-update", call_id |-> call.id,
     sentiment |-> updated_state.sentiment, score |-> updated_state.score,
     turn |-> updated_state.turn, fullState |-> updated_state]

\* session.refresh(call): the row as the commit left it.
Refreshed(r, tx) == IF r.ok THEN GetCall(r.calls, tx.call.id) ELSE tx.call

DashboardCall(message, user_id) ==
    [fn |-> "broadcast_dashboard", message |-> message, user_id |-> user_id, call_id |-> None]

TranscriptCall(message, call_id) ==
    [fn |-> "broadcast_transcript", message |-> message, user_id |-> None, call_id |-> call_id]

\* Request h arrives (requests are numbered in the order they arrive).
Arrives(h) ==
    /\ hs[h].pc = "idle"
    /\ \A g \in Handlers : g < h => hs[g].pc # "idle"
    /\ bc.pc = "idle"

\* return {"ok": False, "error": "missing call.id"}
Ignores(h, client_id, m) ==
    /\ hs' = [hs EXCEPT ![h] =
                [pc |-> "done", client_id |-> client_id, message |-> m, tx |-> NoTx,
                 result |-> [NoResult EXCEPT !.state = "returned",
                                             !.error = "missing call.id"]]]
    /\ UNCHANGED <<calls, events, clock, bcLog, mgrVars>>

\* An exception leaves the handler before its commit: get_session closes the
\* session, which rolls back.
Raises(h, client_id, m, error) ==
    /\ hs' = [hs EXCEPT ![h] =
                [pc |-> "done", client_id |-> client_id, message |-> m, tx |-> NoTx,
                 result |-> [NoResult EXCEPT !.state = "raised", !.error = error]]]
    /\ clock' = clock + 1
    /\ UNCHANGED <<calls, events, bcLog, mgrVars>>

\* The broadcast coroutine of a call the service makes.
CallOf(c) ==
    [IdleBroadcast EXCEPT !.kind = IF c.fn = "broadcast_dashboard" THEN "dashboard"
                                   ELSE "transcript",
                          !.message = [type |-> c.message.type,
                                       clientId |-> c.message.clientId],
                          !.user_id = c.user_id, !.call_id = c.call_id]

\* session.commit(), session.refresh, the broadcasts, the return value.
\* r is the outcome of the commit, bcasts the broadcast calls that follow it.
\* Over an empty registry no broadcast suspends and the handler returns at
\* once; otherwise it enters the first broadcast (`await manager.broadcast_…`)
\* and holds its return value until its broadcasts are over.
Finishes(h, client_id, m, tx, r, type, bcasts) ==
    LET awaits == r.ok /\ bcasts # <<>> /\ Registered(dashboard_clients) # {}
    IN  /\ calls' = r.calls
        /\ events' = r.events
        /\ bcLog' = IF r.ok THEN bcLog \o bcasts ELSE bcLog
        /\ hs' = [hs EXCEPT ![h] =
                    [pc |-> IF awaits THEN "broadcast" ELSE "done",
                     client_id |-> client_id, message |-> m, tx |-> NoTx,
                     result |-> IF r.ok
                                THEN [state |-> IF awaits THEN "held" ELSE "returned",
                                      ok |-> TRUE, type |-> type,
                                      call_id |-> tx.call.id, created |-> tx.created,
                                      status_event_id |-> Len(r.events), error |-> None]
                                ELSE [NoResult EXCEPT !.state = "raised",
                                                      !.error = "IntegrityError"]]]
        /\ clock' = clock + 1
        /\ IF awaits
           THEN /\ pending' = [pending EXCEPT ![h] = Tail(bcasts)]
                /\ recv' = [w \in Conns |-> 0]
                /\ Enter(CallOf(Head(bcasts)))
                /\ UNCHANGED <<wsPc, wsCtx, alive, stalled, relay, relay2, unitVars>>
           ELSE UNCHANGED mgrVars

\* The broadcast that handler h awaits is over.  Its RuntimeError leaves the
\* handler (nothing in the handler catches it); otherwise the handler goes on
\* to its next broadcast or to its return statement.
HandlerResumes(h) ==
    /\ hs[h].pc = "broadcast"
    /\ bc.pc \in {"returned", "raised"}
    /\ IF bc.pc = "raised"
       THEN /\ hs' = [hs EXCEPT ![h].pc = "done",
                                ![h].result = [NoResult EXCEPT !.state = "raised",
                                                              !.error = "RuntimeError"]]
            /\ pending' = [pending EXCEPT ![h] = <<>>]
            /\ bc' = IdleBroadcast
            /\ recv' = [w \in Conns |-> 0]
            /\ stable' = {}
            /\ UNCHANGED <<dashboard_clients, subscriptions>>
       ELSE IF pending[h] = <<>>
       THEN /\ hs' = [hs EXCEPT ![h].pc = "done", ![h].result.state = "returned"]
            /\ bc' = IdleBroadcast
            /\ recv' = [w \in Conns |-> 0]
            /\ stable' = {}
            /\ UNCHANGED <<dashboard_clients, subscriptions, pending>>
       ELSE /\ hs' = hs
            /\ pending' = [pending EXCEPT ![h] = Tail(@)]
            /\ recv' = [w \in Conns |-> 0]
            /\ Enter(CallOf(Head(pending[h])))
    /\ UNCHANGED <<wsPc, wsCtx, alive, stalled, relay, relay2, unitVars, calls, events, clock, bcLog>>

\* handle_status_update(client_id, message, payload, session)
HandleStatusUpdate(h, client_id, m) ==
    /\ Arrives(h)
    /\ LET look == CallIdLookup(m)
           user_id == None
       IN  IF look.raised THEN Raises(h, client_id, m, "AttributeError")
           ELSE IF ~Truthy(look.id) THEN Ignores(h, client_id, m)
           ELSE LET got == GetOrCreateCall(calls, client_id, look.id, clock)
                    tx == [got EXCEPT !.call = StatusUpdateFields(@, m, user_id)]
                    ev == NewEvent(events, tx.call.id, client_id,
                                   <<"status-update: ",
                                     IF Truthy(m.status) THEN m.status ELSE "unknown">>,
                                   m, user_id, clock)
                    r == Commit(calls, events, tx, ev)
                IN  Finishes(h, client_id, m, tx, r, "status-update",
                             << DashboardCall(UpsertMessage(client_id, Refreshed(r, tx)),
                                              user_id) >>)

\* A first-chunk test that asks for a live transcript at least as long as
\* the chunk.
FirstChunk_AtLeast(transcript_text, live_transcript) ==
    /\ TruthyStr(transcript_text)
    /\ TruthyStr(live_transcript)
    /\ Len(live_transcript) >= Len(transcript_text)

\* "If first chunk": transcript_text and call.live_transcript and
\* len(call.live_transcript) == len(transcript_text)
FirstChunk(transcript_text, live_transcript) ==
    /\ TruthyStr(transcript_text)
    /\ TruthyStr(live_transcript)
    /\ Len(live_transcript) = Len(transcript_text)

\* handle_transcript_update(client_id, message, payload, session)
HandleTranscriptUpdate(h, client_id, m) ==
    /\ Arrives(h)
    /\ LET look == CallIdLookup(m)
           user_id == None
       IN  IF look.raised THEN Raises(h, client_id, m, "AttributeError")
           ELSE IF ~Truthy(look.id) THEN Ignores(h, client_id, m)
           ELSE LET got == GetOrCreateCall(calls, client_id, look.id, clock)
                    tx == [got EXCEPT !.call = TranscriptFields(@, m, user_id)]
                    transcript_text == MergeFragment(got.call.live_transcript,
                                                     m.transcript, m.role).chunk
                    ev == NewEvent(events, tx.call.id, client_id, <<"transcript-update">>,
                                   m, user_id, clock)
                    r == Commit(calls, events, tx, ev)
                    live == IF r.ok THEN GetCall(r.calls, tx.call.id).live_transcript
                            ELSE NoneStr
                    first == FirstChunk(transcript_text, live)
                IN  Finishes(h, client_id, m, tx, r, "transcript",
                        << TranscriptCall(TranscriptUpdate(client_id, Refreshed(r, tx),
                                                           transcript_text),
                                          tx.call.id) >>
                        \o (IF first
                            THEN << DashboardCall(FirstChunkUpsert(client_id,
                                                                   Refreshed(r, tx)),
                                                  user_id) >>
                            ELSE << >>))

\* The part of handle_end_of_call_report that follows the download.
EndOfCallCompletes(h, client_id, m, got, recording_url) ==
    LET user_id == None
        out == EndOfCallFields(got.call, m, user_id, clock, recording_url)
        tx == [got EXCEPT !.call = out.call]
        ev == NewEvent(events, tx.call.id, client_id, <<"end-of-call-report">>,
                       m, user_id, clock)
        r == Commit(calls, events, tx, ev)
    IN  IF out.raised # None THEN Raises(h, client_id, m, out.raised)
        ELSE Finishes(h, client_id, m, tx, r, "end-of-call-report",
                      << DashboardCall(EndOfCallUpsert(client_id, Refreshed(r, tx)),
                                       user_id) >>)

\* handle_end_of_call_report(client_id, message, payload, session): up to
\* `await http_client.get(original_recording_url)` when the payload names a
\* recording, to the end otherwise.
HandleEndOfCallReport(h, client_id, m) ==
    /\ Arrives(h)
    /\ LET look == CallIdLookupOrEmpty(m)
       IN  IF ~Truthy(look.id) THEN Ignores(h, client_id, m)
           ELSE LET got == GetOrCreateCall(calls, client_id, look.id, clock)
                IN  IF Truthy(m.recordingUrl)
                    THEN /\ hs' = [hs EXCEPT ![h] =
                                     [pc |-> "download", client_id |-> client_id,
                                      message |-> m, tx |-> got, result |-> NoResult]]
                         /\ clock' = clock + 1
                         /\ UNCHANGED <<calls, events, bcLog, mgrVars>>
                    ELSE EndOfCallCompletes(h, client_id, m, got, None)

\* The download is over.  stored: the response was 200 and the upload went
\* through (recording_url = f"{call_id}.mp3"); otherwise the failure is
\* printed and recording_url stays None.
DownloadEnds(h, stored) ==
    /\ hs[h].pc = "download"
    /\ bc.pc = "idle"
    /\ EndOfCallCompletes(h, hs[h].client_id, hs[h].message, hs[h].tx,
                          IF stored THEN "recording.mp3" ELSE None)

\* A generic handler that broadcasts a call-upsert as the status handler does.
HandleGenericEvent_Broadcasts(h, client_id, m) ==
    /\ Arrives(h)
    /\ LET look == CallIdLookup(m)
           user_id == None
       IN  IF look.raised THEN Raises(h, client_id, m, "AttributeError")
           ELSE IF ~Truthy(look.id) THEN Ignores(h, client_id, m)
           ELSE LET got == GetOrCreateCall(calls, client_id, look.id, clock)
                    tx == [got EXCEPT !.call = GenericFields(@, m)]
                    status == IF Truthy(m.status) THEN m.status
                              ELSE IF Truthy(m.type) THEN m.type ELSE "generic"
                    ev == NewEvent(events, tx.call.id, client_id, <<status>>,
                                   m, user_id, clock)
                    r == Commit(calls, events, tx, ev)
                IN  Finishes(h, client_id, m, tx, r, "generic",
                             << DashboardCall(UpsertMessage(client_id, Refreshed(r, tx)),
                                              user_id) >>)

\* handle_generic_event(client_id, message, payload, session)
HandleGenericEvent(h, client_id, m) ==
    /\ Arrives(h)
    /\ LET look == CallIdLookup(m)
           user_id == None
       IN  IF look.raised THEN Raises(h, client_id, m, "AttributeError")
           ELSE IF ~Truthy(look.id) THEN Ignores(h, client_id, m)
           ELSE LET got == GetOrCreateCall(calls, client_id, look.id, clock)
                    tx == [got EXCEPT !.call = GenericFields(@, m)]
                    status == IF Truthy(m.status) THEN m.status
                              ELSE IF Truthy(m.type) THEN m.type ELSE "generic"
                    ev == NewEvent(events, tx.call.id, client_id, <<status>>,
                                   m, user_id, clock)
                    r == Commit(calls, events, tx, ev)
                IN  Finishes(h, client_id, m, tx, r, "generic", << >>)

\* vprod_server_webhook(client_id, payload)
Webhook(h, client_id, m) ==
    \/ Dispatch(m) = "status-update" /\ HandleStatusUpdate(h, client_id, m)
    \/ Dispatch(m) = "transcript" /\ HandleTranscriptUpdate(h, client_id, m)
    \/ Dispatch(m) = "end-of-call-report" /\ HandleEndOfCallReport(h, client_id, m)
    \/ Dispatch(m) = "generic" /\ HandleGenericEvent(h, client_id, m)

-----------------------------------------------------------------------------
(***************************************************************************)
(* The broadcast engine with its connections: any broadcast the services   *)
(* can ask for, against any population of dashboard connections.           *)
(***************************************************************************)

\* A table with one call of tenant tA that has a live transcript.
SeedCalls ==
    << [NewCall("c1", "tA", 0) EXCEPT !.live_transcript = <<"U", "s", "e", "r", ":", " ", "a">>] >>

\* No webhook request is being handled.
InitIdleServices ==
    /\ calls = SeedCalls
    /\ events = <<>>
    /\ hs = [h \in Handlers |-> IdleHandler]
    /\ clock = 1
    /\ bcLog = <<>>

\* The messages CallService broadcasts: clientId is the tenant of the
\* webhook URL.
DashboardMessages == [type : {"call-upsert"}, clientId : {"tA"}]
TranscriptMessages == [type : {"transcript-update"}, clientId : {"tA"}]

\* The connections of the running system: a user of tenant tA (who gets the
\* dashboard messages above) and a user of tenant tB (who does not).
LiveContexts ==
    {[user_id |-> "u1", role |-> "user", tenant_id |-> "tA"],
     [user_id |-> "u1", role |-> "user", tenant_id |-> "tB"]}

InitManager ==
    /\ dashboard_clients = <<>>
    /\ subscriptions = << >>
    /\ wsPc = [w \in Conns |-> "new"]
    /\ wsCtx = [w \in Conns |-> NoContext]
    /\ alive = [w \in Conns |-> TRUE]
    /\ bc = IdleBroadcast
    /\ recv = [w \in Conns |-> 0]
    /\ stable = {}
    /\ stalled = {}
    /\ pending = [h \in 1..MaxEvents |-> <<>>]
    /\ relay = IdleRelay
    /\ relay2 = IdleRelay
    /\ reducer = IdleReducer
    /\ scorer = IdleScorer

InitBroadcast ==
    /\ InitManager
    /\ InitIdleServices

NextBroadcast ==
    \/ \E w \in Conns, ctx \in LiveContexts : WsRegister(w, ctx)
    \/ \E w \in Conns : WsHello(w)
    \/ \E w \in Conns : WsHelloFails(w)
    \/ \E w \in Conns, c \in SubIds : WsSubscribe(w, c)
    \/ \E w \in Conns : WsSnapshot(w)
    \/ \E w \in Conns : WsSnapshotFails(w)
    \/ \E w \in Conns, c \in SubIds : WsUnsubscribe(w, c)
    \/ \E w \in Conns : WsDisconnect(w)
    \/ \E w \in Conns : WsReceiveError(w)
    \/ \E w \in Conns : ClientDrop(w)
    \/ \E m \in DashboardMessages : BroadcastDashboard(m, None)
    \/ \E m \in TranscriptMessages, c \in SubIds : BroadcastTranscript(m, c)
    \/ SendReturns
    \/ SendRaises
    \/ BroadcastExit

vars == <<dashboard_clients, subscriptions, wsPc, wsCtx, alive, bc, recv, stable, svcVars>>

SpecBroadcast == InitBroadcast /\ [][NextBroadcast]_vars

(***************************************************************************)
(* The filter of broadcast_dashboard against every population: the         *)
(* registry holds NumConns connections of any tenant (or none), role and   *)
(* user, each in its receive loop; broadcasts of tenant tA's events, for   *)
(* all or for user u1, run against it while connections break.             *)
(***************************************************************************)
RECURSIVE RegisterAll(_, _)
RegisterAll(ctxs, n) ==
    IF n = 0 THEN <<>>
    ELSE RegisterEntry(RegisterAll(ctxs, n - 1), n, ctxs[n].user_id, ctxs[n].role,
                       ctxs[n].tenant_id)

InitFilter ==
    /\ \E ctxs \in [Conns -> Contexts] :
         /\ wsCtx = ctxs
         /\ dashboard_clients = RegisterAll(ctxs, NumConns)
    /\ subscriptions = << >>
    /\ wsPc = [w \in Conns |-> "recv"]
    /\ alive = [w \in Conns |-> TRUE]
    /\ bc = IdleBroadcast
    /\ recv = [w \in Conns |-> 0]
    /\ stable = {}
    /\ stalled = {}
    /\ pending = [h \in 1..MaxEvents |-> <<>>]
    /\ relay = IdleRelay
    /\ relay2 = IdleRelay
    /\ reducer = IdleReducer
    /\ scorer = IdleScorer
    /\ InitIdleServices

NextFilter ==
    \/ \E m \in DashboardMessages, u \in {None, "u1"} : BroadcastDashboard(m, u)
    \/ SendReturns
    \/ SendRaises
    \/ BroadcastExit
    \/ \E w \in Conns : ClientDrop(w)

SpecFilter == InitFilter /\ [][NextFilter]_vars

(***************************************************************************)
(* The webhook against the tables: MaxEvents requests arrive, each with    *)
(* one of the payloads below; a handler that awaits the                    *)
(* download of a recording is overtaken by the requests that arrive        *)
(* meanwhile.                                                              *)
(***************************************************************************)
StatusPayloads ==
    { [CallMessage("status-update", "c1") EXCEPT
          !.status = "in-progress", !.customer_number = "p1",
          !.monitor_listenUrl = "wss://listen", !.monitor_controlUrl = "https://control",
          !.call_startedAt = IsoTime(1)],
      CallMessage("status-update", "c1"),
      [CallMessage("Status-Update", "c2") EXCEPT !.status = "ringing"] }

TranscriptPayloads ==
    { [CallMessage("transcript", "c1") EXCEPT !.role = "user", !.transcript = <<"a">>],
      [CallMessage("transcript", "c1") EXCEPT !.role = "assistant",
                                             !.transcript = <<" ", "b">>],
      CallMessage("transcript", "c2") }

EndOfCallPayloads ==
    { [CallMessage("end-of-call-report", "c1") EXCEPT
          !.recordingUrl = "https://provider/rec", !.transcript = <<"h", "i", "\n">>,
          !.startedAt = IsoTime(1), !.endedAt = IsoTime(2),
          !.durationSeconds = Number(5), !.cost = Number(1), !.summary = "s",
          !.structuredOutputs =
              << [name |-> "Customer Sentiment", result |-> "Positive", is_dict |-> TRUE],
                 [name |-> "Call Disposition", result |-> "Sold", is_dict |-> TRUE] >>],
      CallMessage("end-of-call-report", "c1"),
      [CallMessage("end-of-call-report", "c1") EXCEPT !.durationSeconds = BadNumber],
      [CallMessage("end-of-call-report", "c1") EXCEPT !.endedAt = IsoTime(2)],
      [CallMessage("end-of-call-report", "c1") EXCEPT !.endedAt = IsoTime(1)],
      [CallMessage("end-of-call-report", "c2") EXCEPT
          !.recordingUrl = "https://provider/rec"] }

GenericPayloads ==
    { [CallMessage("hang", "c1") EXCEPT !.call_phoneNumber = "p2"],
      CallMessage(None, "c2") }

\* Payloads that name no call: no "call" key, "call": null, a call object
\* without an id, a call object with the id "".
NoCallPayloads ==
    { [BlankMessage(t) EXCEPT !.call = c] :
        t \in {"status-update", "transcript", "end-of-call-report", "hang"},
        c \in {"absent", "null"} }
    \cup { CallMessage("status-update", i) : i \in {None, ""} }

Payloads ==
    StatusPayloads \cup TranscriptPayloads \cup EndOfCallPayloads
        \cup GenericPayloads \cup NoCallPayloads

\* POST /webhooks/vprod/{client_id}: every payload for tenant tA, and for
\* tenant tB two that name the call c1 as well.
Requests ==
    [client_id : {"tA"}, payload : Payloads]
    \cup [client_id : {"tB"},
          payload : {CallMessage("status-update", "c1"),
                     CallMessage("end-of-call-report", "c1")}]

InitCalls ==
    /\ InitManager
    /\ calls = <<>>
    /\ events = <<>>
    /\ hs = [h \in Handlers |-> IdleHandler]
    /\ clock = 1
    /\ bcLog = <<>>

NextCalls ==
    \/ \E h \in Handlers, r \in Requests : Webhook(h, r.client_id, r.payload)
    \/ \E h \in Handlers, stored \in BOOLEAN : DownloadEnds(h, stored)

SpecCalls == InitCalls /\ [][NextCalls]_vars

-----------------------------------------------------------------------------
(***************************************************************************)
(* Properties of the broadcast engine.                                     *)
(***************************************************************************)

\* C1: a dashboard broadcast of a tenant's message never completes a send to
\* a connection registered under another tenant, whatever the role and user
\* of the connection and whatever the target user.
C1_NoDeliveryAcrossTenants ==
    bc.kind = "dashboard" =>
        \A w \in Conns :
            (wsCtx[w].tenant_id \in Tenants /\ wsCtx[w].tenant_id # bc.message.clientId)
                => recv[w] = 0

\* C1 witness: a targeted broadcast returned, an admin of the other tenant was
\* registered and got nothing, a connection of the message's tenant got it.
C1_Witness ==
    /\ bc.kind = "dashboard" /\ bc.pc = "returned" /\ bc.user_id = "u1"
    /\ \E w \in Registered(dashboard_clients) :
         /\ wsCtx[w].tenant_id = "tB" /\ wsCtx[w].role = "admin" /\ recv[w] = 0
    /\ \E v \in Conns : wsCtx[v].tenant_id = "tA" /\ recv[v] = 1

\* The rule of C2 for one connection.
C2_Rule(w) ==
    /\ wsCtx[w].tenant_id = bc.message.clientId
    /\ \/ bc.user_id = None
       \/ wsCtx[w].role = "admin"
       \/ wsCtx[w].user_id = bc.user_id

\* C2: broadcast_dashboard sends to a registered connection if and only if
\* its tenant equals the message's tenant and the message has no target user,
\* or the connection is an admin, or it is the target user; a connection
\* registered without a tenant id is skipped.
C2_SentIffTenantAndTarget ==
    bc.kind = "dashboard" =>
        /\ \A w \in Conns : recv[w] > 0 => C2_Rule(w)
        /\ bc.pc = "returned" =>
             \A w \in Registered(dashboard_clients) : (alive[w] /\ C2_Rule(w)) => recv[w] = 1

\* C8: at the moment a broadcast returns, every connection whose send raised
\* is in neither the registry nor the subscription map.
C8_DeadAbsentAtReturn ==
    bc.pc = "returned" =>
        \A i \in 1..Len(bc.dead) :
            /\ bc.dead[i] \notin Registered(dashboard_clients)
            /\ bc.dead[i] \notin DOMAIN subscriptions

\* C8 witness: a transcript broadcast returned after the send to a subscribed
\* connection raised.
C8_Witness ==
    /\ bc.pc = "returned" /\ bc.kind = "transcript" /\ Len(bc.dead) > 0
    /\ \E w \in Conns : recv[w] = 1

\* C9: when a send of a broadcast raised, the broadcast is not aborted: every
\* other connection that was registered and eligible throughout got the
\* message exactly once by the time the call is over.
C9_SendFailureNeverAborts ==
    /\ \A w \in Conns : recv[w] <= 1
    /\ (bc.pc \in {"returned", "raised"} /\ Len(bc.dead) > 0) =>
          \A w \in stable :
              (alive[w] /\ \A i \in 1..Len(bc.dead) : bc.dead[i] # w) => recv[w] = 1

\* C10: every connection with an entry in the subscription map is in the
\* registry.
C10_SubscriptionsWithinRegistry ==
    DOMAIN subscriptions \subseteq Registered(dashboard_clients)

-----------------------------------------------------------------------------
(***************************************************************************)
(* Properties of the webhook handlers and the tables.                      *)
(***************************************************************************)

\* The handler of request h has returned {"ok": True, ...}.
Processed(h) == hs[h].result.state = "returned" /\ hs[h].result.ok

\* The payload names no call.
LacksCallId(m) == ~Truthy(CallIdLookupOrEmpty(m).id)

\* C3: there is exactly one Call record for every call id that a processed
\* event references, and never two for any id, however the handlers of the
\* same id interleave.
C3_OneCallPerCallId ==
    /\ \A c \in CallIds : Cardinality(RowsOf(calls, c)) <= 1
    /\ \A j \in 1..Len(events) : Cardinality(RowsOf(calls, events[j].call_id)) = 1
    /\ \A h \in Handlers :
          Processed(h) => Cardinality(RowsOf(calls, hs[h].result.call_id)) = 1

\* Two requests for the new call c1 were handled at once: both found no
\* Call, the one that committed first created it.
C3_Witness ==
    /\ \E g, h \in Handlers :
          /\ g # h
          /\ Processed(g) /\ hs[g].result.created /\ hs[g].result.call_id = "c1"
          /\ hs[h].pc = "done" /\ hs[h].message.call_id = "c1"
          /\ hs[h].result.error = "IntegrityError"
    /\ Cardinality(RowsOf(calls, "c1")) = 1

\* C4: the changes a handler makes to the Call and the CallEvent it appends
\* are committed together or not at all: in every step the Call table
\* changes exactly when the event log does, also when the handler fails
\* part-way.
C4_CallAndEventTogether ==
    [][(calls' # calls) <=> (events' # events)]_vars

\* A handler failed after it had loaded and changed its Call, and a Call and
\* its event are in the tables.
C4_Witness ==
    /\ \E h \in Handlers :
          /\ hs[h].result.state = "raised"
          /\ hs[h].result.error \in {"ValueError", "TypeError", "IntegrityError"}
    /\ calls # <<>>
    /\ events # <<>>

\* C5: every successfully processed event that names a call appends exactly
\* one CallEvent, holding the full raw payload, and the log only grows: a
\* step leaves the events it finds as they are, and appends one exactly when
\* a handler returns ok, that handler's.
C5_OneEventPerProcessedEvent ==
    [][ /\ Len(events') >= Len(events)
        /\ SubSeq(events', 1, Len(events)) = events
        /\ (Len(events') # Len(events)) <=>
              (\E h \in Handlers : ~Processed(h) /\ Processed(h)')
        /\ \A h \in Handlers :
              (~Processed(h) /\ Processed(h)') =>
                  /\ Len(events') = Len(events) + 1
                  /\ events'[Len(events')].id = hs'[h].result.status_event_id
                  /\ events'[Len(events')].call_id = hs'[h].result.call_id
                  /\ events'[Len(events')].payload = hs'[h].message
      ]_vars

\* Every request was processed, each appending its event.
C5_Witness ==
    /\ \A h \in Handlers : Processed(h)
    /\ Len(events) = MaxEvents
    /\ \A h \in Handlers : \E j \in 1..Len(events) : events[j].payload = hs[h].message

\* C6: an event that names no call is answered with the explicit not-ok
\* result "missing call.id", without an exception, and leaves the tables
\* alone and broadcasts nothing.
C6_NoCallIdIsIgnored ==
    [][ \A h \in Handlers :
          (hs[h].pc = "idle" /\ hs'[h].pc # "idle" /\ LacksCallId(hs'[h].message)) =>
              /\ hs'[h].pc = "done"
              /\ hs'[h].result.state = "returned"
              /\ ~hs'[h].result.ok
              /\ hs'[h].result.error = "missing call.id"
              /\ UNCHANGED <<calls, events, bcLog>>
      ]_vars

\* C7: the handling of events of one call id is serialized, the end-of-call
\* handler's wait for the recording included: when a handler that waited
\* commits, the Call is as the handler loaded it (nobody wrote it meanwhile),
\* and no handler fails because of another.
C7_SameCallSerialized ==
    [][ \A h \in Handlers :
          (hs[h].pc = "download" /\ hs'[h].pc = "done") =>
              /\ IF hs[h].tx.created
                 THEN ~HasCall(calls, hs[h].tx.call.id)
                 ELSE GetCall(calls, hs[h].tx.call.id) = hs[h].tx.snap
              /\ hs'[h].result.error # "IntegrityError"
      ]_vars

-----------------------------------------------------------------------------
(***************************************************************************)
(* Properties of the transcript broadcast.                                 *)
(***************************************************************************)

\* The send of broadcast b to connection w raised.
InDead(b, w) == \E i \in 1..Len(b.dead) : b.dead[i] = w

\* C11: broadcast_transcript sends to exactly the registered connections
\* whose subscription set contains call_id: it starts a send only to a
\* registered connection that is subscribed at that moment, never sends
\* twice to one connection, and by the time the call is over it has sent to
\* every connection that was registered and subscribed all along.
C11_TranscriptToExactlySubscribers ==
    [][ /\ (bc' # bc /\ bc'.kind = "transcript" /\ bc'.pc = "sending") =>
              /\ bc'.cur \in Registered(dashboard_clients')
              /\ bc'.call_id \in SubsOf(subscriptions', bc'.cur)
        /\ bc'.kind = "transcript" => \A w \in Conns : recv'[w] <= 1
        /\ (bc'.kind = "transcript" /\ bc'.pc \in {"returned", "raised"}) =>
              \A w \in stable' : recv'[w] = 1 \/ InDead(bc', w)
      ]_vars

-----------------------------------------------------------------------------
(***************************************************************************)
(* A peer that stops reading: the socket stays open, the send buffers fill *)
(* and `await ws.send_json(message)` stays suspended.  Neither broadcast   *)
(* (websocket_manager.py lines 46 and 103) puts a timeout around the send. *)
(* The registry holds NumConns connections of tenant tA or tB, each in its *)
(* receive loop and each subscribed to call c1 or not.                     *)
(***************************************************************************)

\* The peer of connection w stops reading.
ClientStalls(w) ==
    /\ Quiet
    /\ wsPc[w] \notin {"new", "closed"}
    /\ alive[w]
    /\ w \notin stalled
    /\ stalled' = stalled \cup {w}
    /\ UNCHANGED <<connVars, tableVars, pending, relay, relay2, unitVars>>

RECURSIVE SubscribeAll(_, _)
SubscribeAll(S, call_id) ==
    IF S = {} THEN << >>
    ELSE LET w == CHOOSE x \in S : TRUE
         IN  Subscribe(SubscribeAll(S \ {w}, call_id), w, call_id)

InitStall ==
    /\ \E ctxs \in [Conns -> LiveContexts] :
         /\ wsCtx = ctxs
         /\ dashboard_clients = RegisterAll(ctxs, NumConns)
    /\ \E S \in SUBSET Conns : subscriptions = SubscribeAll(S, "c1")
    /\ wsPc = [w \in Conns |-> "recv"]
    /\ alive = [w \in Conns |-> TRUE]
    /\ bc = IdleBroadcast
    /\ recv = [w \in Conns |-> 0]
    /\ stable = {}
    /\ stalled = {}
    /\ pending = [h \in 1..MaxEvents |-> <<>>]
    /\ relay = IdleRelay
    /\ relay2 = IdleRelay
    /\ reducer = IdleReducer
    /\ scorer = IdleScorer
    /\ InitIdleServices

NextStall ==
    \/ \E m \in DashboardMessages : BroadcastDashboard(m, None)
    \/ \E m \in TranscriptMessages, c \in SubIds : BroadcastTranscript(m, c)
    \/ SendReturns
    \/ SendRaises
    \/ BroadcastExit
    \/ \E w \in Conns : ClientStalls(w)
    \/ \E w \in Conns : ClientDrop(w)

SpecStall == InitStall /\ [][NextStall]_vars

\* C12: a broadcast does not wait without bound on one connection: while it
\* is suspended in the send to a connection whose peer has stopped reading and
\* whose socket is still open, the send can end by itself (a timeout that
\* returns or raises), so that the loop goes on to the other connections.
C12_StalledSendCanEnd ==
    (bc.pc = "sending" /\ bc.cur \in stalled /\ alive[bc.cur])
        => ENABLED (SendReturns \/ SendRaises)

-----------------------------------------------------------------------------
(***************************************************************************)
(* The webhook handlers over a registry that holds connections: each       *)
(* handler awaits its broadcasts (`await manager.broadcast_dashboard(…)`,  *)
(* `await manager.broadcast_transcript(…)`) after its commit and before    *)
(* its return statement, while the dashboard connections break and their   *)
(* handlers leave.  One request is served at a time from its commit to its *)
(* return.                                                                 *)
(***************************************************************************)
DeliveryPayloads ==
    { [CallMessage("status-update", "c1") EXCEPT
          !.status = "in-progress", !.monitor_listenUrl = "wss://listen",
          !.monitor_controlUrl = "https://control"],
      [CallMessage("transcript", "c1") EXCEPT !.role = "user", !.transcript = <<"a">>],
      CallMessage("end-of-call-report", "c1"),
      CallMessage("hang", "c1") }

InitDelivery ==
    /\ wsCtx = [w \in Conns |-> [user_id |-> "u1", role |-> "user", tenant_id |-> "tA"]]
    /\ dashboard_clients = RegisterAll(wsCtx, NumConns)
    /\ \E S \in SUBSET Conns : subscriptions = SubscribeAll(S, "c1")
    /\ wsPc = [w \in Conns |-> "recv"]
    /\ alive = [w \in Conns |-> TRUE]
    /\ bc = IdleBroadcast
    /\ recv = [w \in Conns |-> 0]
    /\ stable = {}
    /\ stalled = {}
    /\ pending = [h \in 1..MaxEvents |-> <<>>]
    /\ relay = IdleRelay
    /\ relay2 = IdleRelay
    /\ reducer = IdleReducer
    /\ scorer = IdleScorer
    /\ calls = <<>>
    /\ events = <<>>
    /\ hs = [h \in Handlers |-> IdleHandler]
    /\ clock = 1
    /\ bcLog = <<>>

NextDelivery ==
    \/ \E h \in Handlers, m \in DeliveryPayloads : Webhook(h, "tA", m)
    \/ \E h \in Handlers : HandlerResumes(h)
    \/ SendReturns
    \/ SendRaises
    \/ \E w \in Conns : ClientDrop(w)
    \/ \E w \in Conns : WsDisconnect(w)

SpecDelivery == InitDelivery /\ [][NextDelivery]_vars

\* C13: the broadcast is fire-and-forget: the result a handler holds once its
\* event is committed (ok, type, call id, created flag, event id) is the
\* result it returns, and the committed tables stay as they are, whatever
\* the sends of its broadcasts do; no failure of a broadcast leaves the handler.
C13_BroadcastNeverChangesResult ==
    [][ \A h \in Handlers :
          hs[h].result.state = "held" =>
              /\ hs'[h].result \in {hs[h].result,
                                    [hs[h].result EXCEPT !.state = "returned"]}
              /\ calls' = calls
              /\ events' = events
      ]_vars

-----------------------------------------------------------------------------
(***************************************************************************)
(* listen_proxy_websocket: the audio relay of one call.                    *)
(*   new -> (refused | connecting) -> (relaying | ended) -> ended          *)
(* down is the downstream (client) socket, up the upstream socket of the   *)
(* call's listen_url, fwd the task upstream_to_client.                     *)
(***************************************************************************)
MaxFrames == 2     \* frames relayed in each direction

\* An owner check left out.
ListenCheck_TenantOnly(tbl, call_id, user) ==
    IF ~HasCall(tbl, call_id) THEN [ok |-> FALSE, code |-> 1000]
    ELSE LET call == GetCall(tbl, call_id)
         IN  IF ~Truthy(call.listen_url) THEN [ok |-> FALSE, code |-> 1000]
             ELSE IF call.client_id # user.client_id THEN [ok |-> FALSE, code |-> 4003]
             ELSE [ok |-> TRUE, code |-> 0]

\* The checks between `await websocket.accept()` and `websockets.connect`:
\* the close code of the first one that fails.
ListenCheck(tbl, call_id, user) ==
    IF ~HasCall(tbl, call_id) THEN [ok |-> FALSE, code |-> 1000]
    ELSE LET call == GetCall(tbl, call_id)
         IN  IF ~Truthy(call.listen_url) THEN [ok |-> FALSE, code |-> 1000]
             ELSE IF call.client_id # user.client_id THEN [ok |-> FALSE, code |-> 4003]
             ELSE IF user.role # "admin" /\ call.user_id # user.id
                  THEN [ok |-> FALSE, code |-> 4003]
             ELSE [ok |-> TRUE, code |-> 0]

\* The connection of `user` for call_id arrives: accept, the lookup, the
\* checks, and either `await websocket.close(code, reason)` and return, or
\* the start of `websockets.connect(target_url, …)`.
RelayOpens(user, call_id) ==
    /\ relay.pc = "new"
    /\ LET chk == ListenCheck(calls, call_id, user)
       IN  relay' = IF chk.ok
                    THEN [relay EXCEPT !.pc = "connecting", !.user = user,
                                       !.call_id = call_id, !.down = "open",
                                       !.up = "connecting", !.attempts = @ + 1]
                    ELSE [relay EXCEPT !.pc = "refused", !.user = user,
                                       !.call_id = call_id, !.down = "closed",
                                       !.code = chk.code]
    /\ UNCHANGED <<connVars, tableVars, stalled, pending, relay2, unitVars>>

\* The upstream handshake succeeds: forward_task = asyncio.create_task(…) and
\* the main loop awaits websocket.receive().
UpstreamAccepts ==
    /\ relay.pc = "connecting"
    /\ relay' = [relay EXCEPT !.pc = "relaying", !.up = "open", !.fwd = "running"]
    /\ UNCHANGED <<connVars, tableVars, stalled, pending, relay2, unitVars>>

\* websockets.connect raises: the outer except closes the downstream (1011).
UpstreamRefuses ==
    /\ relay.pc = "connecting"
    /\ relay' = [relay EXCEPT !.pc = "ended", !.up = "failed", !.down = "closed",
                              !.code = 1011]
    /\ UNCHANGED <<connVars, tableVars, stalled, pending, relay2, unitVars>>

\* upstream_to_client: a frame of the upstream is sent to the client.
UpstreamFrame ==
    /\ relay.pc = "relaying"
    /\ relay.fwd = "running"
    /\ relay.up = "open"
    /\ relay.to_client < MaxFrames
    /\ relay' = [relay EXCEPT !.to_client = @ + 1]
    /\ UNCHANGED <<connVars, tableVars, stalled, pending, relay2, unitVars>>

\* The upstream closes the connection, or the connection fails.
UpstreamCloses ==
    /\ relay.pc = "relaying"
    /\ relay.up = "open"
    /\ relay' = [relay EXCEPT !.up = "closed"]
    /\ UNCHANGED <<connVars, tableVars, stalled, pending, relay2, unitVars>>

\* upstream_to_client: `async for message in upstream_ws` ends, or raises
\* into the except clause, which prints; the task is over.
ForwardEnds ==
    /\ relay.pc = "relaying"
    /\ relay.fwd = "running"
    /\ relay.up = "closed"
    /\ relay' = [relay EXCEPT !.fwd = "ended"]
    /\ UNCHANGED <<connVars, tableVars, stalled, pending, relay2, unitVars>>

\* The main loop leaves: finally forward_task.cancel(), the `async with`
\* closes the upstream, the handler returns and the server drops the
\* downstream socket.
RelayLeft ==
    [relay EXCEPT !.pc = "ended",
                  !.fwd = IF relay.fwd = "running" THEN "cancelled" ELSE relay.fwd,
                  !.up = IF relay.up = "open" THEN "closed_by_proxy" ELSE relay.up,
                  !.down = "closed"]

\* The client sends a frame: `await websocket.receive()` returns it and
\* `await upstream_ws.send(…)` forwards it, or raises ConnectionClosed when
\* the upstream is closed (except Exception, then finally).
DownstreamFrame ==
    /\ relay.pc = "relaying"
    /\ relay.down = "open"
    /\ IF relay.up = "open"
       THEN /\ relay.to_upstream < MaxFrames
            /\ relay' = [relay EXCEPT !.to_upstream = @ + 1]
       ELSE relay' = RelayLeft
    /\ UNCHANGED <<connVars, tableVars, stalled, pending, relay2, unitVars>>

\* The client disconnects: receive() returns "websocket.disconnect": break.
DownstreamDisconnects ==
    /\ relay.pc = "relaying"
    /\ relay.down = "open"
    /\ relay' = RelayLeft
    /\ UNCHANGED <<connVars, tableVars, stalled, pending, relay2, unitVars>>

\* UserContext(id, client_id, role) of get_current_user_ws.
RelayUsers == [id : {"u1", "u2"}, client_id : {"tA", "tB"}, role : {"admin", "user"}]

\* The Call table: empty, or the call c1 of either tenant, with or without a
\* listen_url, assigned to nobody, to u1 or to u2.
RelayTables ==
    { <<>> } \cup
    { << [NewCall("c1", t, 0) EXCEPT !.listen_url = l, !.user_id = u] >> :
        t \in {"tA", "tB"}, l \in {None, "wss://listen"}, u \in {None, "u1", "u2"} }

InitRelay ==
    /\ InitManager
    /\ calls \in RelayTables
    /\ events = <<>>
    /\ hs = [h \in Handlers |-> IdleHandler]
    /\ clock = 1
    /\ bcLog = <<>>

NextRelay ==
    \/ \E user \in RelayUsers, call_id \in {"c1", "c2"} : RelayOpens(user, call_id)
    \/ UpstreamAccepts
    \/ UpstreamRefuses
    \/ UpstreamFrame
    \/ UpstreamCloses
    \/ ForwardEnds
    \/ DownstreamFrame
    \/ DownstreamDisconnects

SpecRelay == InitRelay /\ [][NextRelay]_vars

\* C14: the relay attempts the upstream connection only for a call that
\* exists with a listen endpoint, of the requester's tenant, and for a
\* requester who is an admin or the call's assigned user; when a check fails
\* the downstream is closed and no upstream connection is attempted.
C14_UpstreamOnlyAfterChecks ==
    LET Passes ==
            /\ HasCall(calls, relay.call_id)
            /\ Truthy(GetCall(calls, relay.call_id).listen_url)
            /\ GetCall(calls, relay.call_id).client_id = relay.user.client_id
            /\ \/ relay.user.role = "admin"
               \/ GetCall(calls, relay.call_id).user_id = relay.user.id
    IN  /\ (relay.attempts > 0 \/ relay.up # "none") => Passes
        /\ (relay.pc # "new" /\ ~Passes) =>
              /\ relay.pc = "refused"
              /\ relay.down = "closed"
              /\ relay.attempts = 0
              /\ relay.up = "none"

\* An assigned user of the call's tenant, not an admin, is relaying.
C14_Witness ==
    /\ relay.pc = "relaying"
    /\ relay.user.role = "user"
    /\ relay.attempts = 1

\* C15: while relaying, the end of either side moves the session to its
\* end.  Once the upstream has closed and upstream_to_client is over, the
\* relay closes the downstream by itself, without a further frame or a
\* disconnect of the client.
C15_UpstreamEndClosesDownstream ==
    (relay.pc = "relaying" /\ relay.up = "closed" /\ relay.fwd = "ended")
        => ENABLED (UpstreamAccepts \/ UpstreamRefuses \/ UpstreamFrame \/ ForwardEnds)

\* The transcript events of call c that carried text, in the order stored.
SpokenEvents(c) ==
    SelectSeq(events, LAMBDA e : /\ e.call_id = c
                                 /\ e.payload.type = "transcript"
                                 /\ TruthyStr(e.payload.transcript))

\* The user utterances of call c that are complete: another speaker's
\* fragment follows them.
CompletedUserUtterances(c) ==
    LET T == SpokenEvents(c)
    IN  Cardinality({i \in 1..(Len(T) - 1) :
                        T[i].payload.role = "user" /\ T[i + 1].payload.role # "user"})

\* C16: the transcript events trigger the Sentiment Scorer once for each
\* completed user utterance and never for an assistant utterance: while no
\* handler is running, the sentiment-state history of every call has as many
\* states as the call's transcript events hold completed user utterances.
C16_OneSentimentStatePerUserUtterance ==
    (\A h \in Handlers : hs[h].pc \in {"idle", "done"}) =>
        \A i \in 1..Len(calls) :
            Len(calls[i].sentiment_state) = CompletedUserUtterances(calls[i].id)

\* Handler h takes up a request of the given kind in this step.
TakesUp(h, kind) ==
    /\ hs[h].pc = "idle"
    /\ hs'[h].pc # "idle"
    /\ Dispatch(hs'[h].message) = kind

\* C17: once an end-of-call-report has set the final transcript of a call, no
\* later transcript-fragment event changes it.
C17_FinalTranscriptKept ==
    [][ (\E h \in Handlers : TakesUp(h, "transcript")) =>
            \A i \in 1..Len(calls) :
                TruthyStr(calls[i].final_transcript) =>
                    calls'[i].final_transcript = calls[i].final_transcript
      ]_vars

\* A transcript fragment was merged into a call whose final transcript an
\* end-of-call-report had set before.
C17_Witness ==
    /\ Len(events) = 2
    /\ events[1].status = <<"end-of-call-report">>
    /\ events[2].status = <<"transcript-update">>
    /\ events[1].call_id = events[2].call_id
    /\ TruthyStr(events[2].payload.transcript)
    /\ TruthyStr(GetCall(calls, events[2].call_id).final_transcript)
    /\ GetCall(calls, events[2].call_id).live_transcript # NoneStr

\* C18: once the ended-at of a call is set, no later event clears it or
\* moves it to an earlier time.
C18_EndedAtNeverRegresses ==
    [][ \A i \in 1..Len(calls) :
            calls[i].ended_at # <<>> =>
                /\ calls'[i].ended_at # <<>>
                /\ calls'[i].ended_at[1].t >= calls[i].ended_at[1].t
      ]_vars

\* C19: the tenant id of a Call is fixed when the Call is created: no later
\* event changes it, an event for the same call id under another tenant
\* included.
C19_TenantFixedAtCreation ==
    [][ /\ Len(calls') >= Len(calls)
        /\ \A i \in 1..Len(calls) :
              /\ calls'[i].id = calls[i].id
              /\ calls'[i].client_id = calls[i].client_id
      ]_vars

\* An event of tenant tB was processed for a call that tenant tA created.
C19_Witness ==
    \E i \in 1..Len(events) :
        /\ events[i].client_id = "tB"
        /\ i > 1
        /\ events[1].call_id = events[i].call_id
        /\ events[1].client_id = "tA"
        /\ GetCall(calls, events[i].call_id).client_id = "tA"

\* The listen and control endpoints the Call table holds.
EndpointValues ==
    {calls[i].listen_url : i \in {j \in 1..Len(calls) : Truthy(calls[j].listen_url)}}
    \cup {calls[i].control_url : i \in {j \in 1..Len(calls) : Truthy(calls[j].control_url)}}

\* The fields of a message and of its "call" object that hold a string.
StringFields ==
    {"type", "clientId", "callId", "call_id", "id", "status", "phoneNumber", "username",
     "sentiment", "disposition", "recordingUrl", "listenUrl", "controlUrl",
     "listen_url", "control_url"}

\* The strings a message carries.
StringsOf(msg) ==
    {msg[f] : f \in DOMAIN msg \cap StringFields}
    \cup (IF "call" \in DOMAIN msg
          THEN {msg.call[f] : f \in DOMAIN msg.call \cap StringFields}
          ELSE {})

\* The messages the dashboards are sent: the ones the handlers have passed
\* to the broadcasts, and for every Call the subscribe snapshot and the
\* sentiment-update of any state.
SentMessages ==
    {bcLog[i].message : i \in 1..Len(bcLog)}
    \cup {SnapshotMessage(calls[i]) : i \in 1..Len(calls)}
    \cup {SentimentMessage(calls[i], [sentiment |-> s, score |-> 0, turn |-> 1,
                                      completed_user_message |-> <<"a">>]) :
            i \in 1..Len(calls), s \in {"Positive", "Not Enuf Data"}}

\* C20: no message sent to a dashboard connection (call-upsert,
\* transcript-update, sentiment-update, subscribe snapshot) contains the value
\* of a call's listen endpoint or control endpoint; a call-upsert tells only
\* whether the call has a listen endpoint (hasListenUrl).
C20_EndpointsNeverSent ==
    \A msg \in SentMessages :
        /\ StringsOf(msg) \cap EndpointValues = {}
        /\ "call" \in DOMAIN msg =>
              DOMAIN msg.call \cap {"listenUrl", "controlUrl", "listen_url", "control_url"} = {}

\* A connection has received the call-upsert of a call that has a listen
\* endpoint and a control endpoint.
C20_Witness ==
    /\ bc.pc = "sending"
    /\ \E w \in Conns : recv[w] = 1
    /\ bcLog # <<>>
    /\ bcLog[Len(bcLog)].message.type = "call-upsert"
    /\ bcLog[Len(bcLog)].message.call.hasListenUrl
    /\ EndpointValues = {"wss://listen", "https://control"}

-----------------------------------------------------------------------------
(***************************************************************************)
(* The transcript merge of handle_transcript_update as a function of the   *)
(* live transcript, the fragment and its role: fragments of any role are   *)
(* merged one after the other into an empty live transcript.               *)
(***************************************************************************)
MaxFragments == 3     \* fragments merged into one transcript

Fragments ==
    { <<"H", "i">>, <<"H", "e", "y", " ", "t", "h", "e", "r", "e">>, <<"B", "y", "e">>,
      <<" ", "b">>,
      <<"a", " ">>,
      << >>, <<" ">> }

FragmentRoles == {"user", "assistant", None}

\* One fragment is merged: lines 209-251 on the transcript so far, and the
\* first-chunk test of line 280 on the outcome.
Merge(raw_text, role) ==
    /\ Len(reducer.frags) < MaxFragments
    /\ LET out == MergeFragment(reducer.live, raw_text, role)
       IN  reducer' = [live |-> out.live, chunk |-> out.chunk, prev |-> reducer.live,
                       frags |-> Append(reducer.frags, [text |-> raw_text, role |-> role]),
                       first |-> Append(reducer.first, FirstChunk(out.chunk, out.live))]
    /\ UNCHANGED <<connVars, tableVars, stalled, pending, relay, relay2, scorer>>

InitReducer ==
    /\ InitManager
    /\ InitIdleServices

NextReducer == \E raw_text \in Fragments, role \in FragmentRoles : Merge(raw_text, role)

SpecReducer == InitReducer /\ [][NextReducer]_vars

\* The speaker a role names, and the speaker the prefix of a line names.
SpeakerOf(role) == IF LowerRole(role) \in {"assistant", "user"} THEN LowerRole(role) ELSE "unknown"
SpeakerOfLine(line) ==
    IF StartsWith(line, PrefixAI) THEN "assistant"
    ELSE IF StartsWith(line, PrefixUser) THEN "user" ELSE "unknown"
PrefixOf(role) ==
    IF SpeakerOf(role) = "assistant" THEN PrefixAI
    ELSE IF SpeakerOf(role) = "user" THEN PrefixUser ELSE <<>>

\* The fragment merged last.
LastFragment == reducer.frags[Len(reducer.frags)]

\* C21: a fragment with text, whose role differs from the role of the last
\* line of the non-empty live transcript, is appended as a newline, the role
\* prefix and the trimmed fragment; "Hi" (user), "Hey there" (assistant), "Bye"
\* (user) merged into an empty transcript give the three lines "User: Hi",
\* "AI: Hey there", "User: Bye".
C21_NewSpeakerStartsLine ==
    /\ ( /\ reducer.frags # <<>>
         /\ TruthyStr(reducer.prev)
         /\ TruthyStr(Strip(LastFragment.text))
         /\ SpeakerOfLine(LastLine(reducer.prev)) # SpeakerOf(LastFragment.role) )
       => reducer.live = reducer.prev \o <<"\n">> \o PrefixOf(LastFragment.role)
                            \o Strip(LastFragment.text)
    /\ reducer.frags = << [text |-> <<"H", "i">>, role |-> "user"],
                          [text |-> <<"H", "e", "y", " ", "t", "h", "e", "r", "e">>, role |-> "assistant"],
                          [text |-> <<"B", "y", "e">>, role |-> "user"] >>
       => reducer.live = <<"U", "s", "e", "r", ":", " ", "H", "i", "\n", "A", "I", ":", " ", "H", "e", "y", " ", "t", "h", "e", "r", "e", "\n", "U", "s", "e", "r", ":", " ", "B", "y", "e">>

\* C22: the merge is associative per speaker run: two consecutive fragments
\* a and b of the same role, merged one after the other into an empty live
\* transcript, give the live transcript that the single fragment a+b gives.
C22_MergeAssociativePerRun ==
    ( /\ Len(reducer.frags) = 2
      /\ reducer.frags[1].role = reducer.frags[2].role
      /\ TruthyStr(reducer.frags[1].text)
      /\ TruthyStr(reducer.frags[2].text) )
    => reducer.live = MergeFragment(NoneStr, reducer.frags[1].text \o reducer.frags[2].text,
                                    reducer.frags[1].role).live

-----------------------------------------------------------------------------
(***************************************************************************)
(* SentimentService._calculate_sentiment as a function of the previous     *)
(* state and the utterance: utterances are scored one after the other,     *)
(* starting from the initial state of update_call_sentiment.               *)
(***************************************************************************)
MaxTurns == 3     \* utterances scored into one state

\* SentimentService.POSITIVE, NEGATIVE, NEUTRAL
POSITIVE ==
    << <<"y", "e", "s">>,
       <<"y", "e", "a", "h">>,
       <<"y", "e", "p">>,
       <<"s", "u", "r", "e">>,
       <<"o", "k", "a", "y">>,
       <<"o", "k">>,
       <<"s", "o", "u", "n", "d", "s", " ", "g", "o", "o", "d">>,
       <<"t", "e", "l", "l", " ", "m", "e", " ", "m", "o", "r", "e">>,
       <<"h", "o", "w", " ", "m", "u", "c", "h">>,
       <<"w", "h", "a", "t", " ", "d", "o", "e", "s", " ", "i", "t", " ", "c", "o", "v", "e", "r">>,
       <<"i", "'", "m", " ", "i", "n", "t", "e", "r", "e", "s", "t", "e", "d">> >>

NEGATIVE ==
    << <<"n", "o", "t", " ", "i", "n", "t", "e", "r", "e", "s", "t", "e", "d">>,
       <<"s", "t", "o", "p", " ", "c", "a", "l", "l", "i", "n", "g">>,
       <<"d", "o", "n", "'", "t", " ", "c", "a", "l", "l">>,
       <<"r", "e", "m", "o", "v", "e", " ", "m", "e">>,
       <<"h", "a", "n", "g", " ", "u", "p">>,
       <<"w", "r", "o", "n", "g", " ", "n", "u", "m", "b", "e", "r">> >>

NEUTRAL ==
    << <<"m", "a", "y", "b", "e">>,
       <<"n", "o", "t", " ", "s", "u", "r", "e">>,
       <<"u", "h">>,
       <<"u", "h", " ", "h", "u", "h">>,
       <<"h", "m", "m">> >>

\* SentimentService.ENGAGEMENT_PATTERNS: r"\?", r"\b(cost|price|rate)\b",
\* r"\b(coverage|cover)\b", r"\b(benefit|benefits)\b"; `bounded` tells that the
\* alternatives stand between two \b.
ENGAGEMENT_PATTERNS ==
    << [pattern |-> "\\?", bounded |-> FALSE, alternatives |-> { <<"?">> }],
       [pattern |-> "\\b(cost|price|rate)\\b", bounded |-> TRUE,
        alternatives |-> { <<"c", "o", "s", "t">>, <<"p", "r", "i", "c", "e">>, <<"r", "a", "t", "e">> }],
       [pattern |-> "\\b(coverage|cover)\\b", bounded |-> TRUE,
        alternatives |-> { <<"c", "o", "v", "e", "r", "a", "g", "e">>, <<"c", "o", "v", "e", "r">> }],
       [pattern |-> "\\b(benefit|benefits)\\b", bounded |-> TRUE,
        alternatives |-> { <<"b", "e", "n", "e", "f", "i", "t">>, <<"b", "e", "n", "e", "f", "i", "t", "s">> }] >>

\* str.lower(), character by character.
LowerChar(c) ==
    CASE c = "A" -> "a" []
                c = "B" -> "b" []
                c = "C" -> "c" []
                c = "D" -> "d" []
                c = "E" -> "e" []
                c = "F" -> "f" []
                c = "G" -> "g" []
                c = "H" -> "h" []
                c = "I" -> "i" []
                c = "J" -> "j" []
                c = "K" -> "k" []
                c = "L" -> "l" []
                c = "M" -> "m" []
                c = "N" -> "n" []
                c = "O" -> "o" []
                c = "P" -> "p" []
                c = "Q" -> "q" []
                c = "R" -> "r" []
                c = "S" -> "s" []
                c = "T" -> "t" []
                c = "U" -> "u" []
                c = "V" -> "v" []
                c = "W" -> "w" []
                c = "X" -> "x" []
                c = "Y" -> "y" []
                c = "Z" -> "z"
      [] OTHER -> c

Lower(s) == [i \in 1..Len(s) |-> LowerChar(s[i])]

\* len(msg.split()): the runs of characters that are no whitespace.
WordCount(msg) ==
    Cardinality({i \in 1..Len(msg) :
                    /\ msg[i] \notin Whitespace
                    /\ (i = 1 \/ msg[i - 1] \in Whitespace)})

\* `p in msg`, at position i.
OccursAt(msg, p, i) == i + Len(p) - 1 <= Len(msg) /\ SubSeq(msg, i, i + Len(p) - 1) = p

\* `p in msg`
Contains(msg, p) == \E i \in 1..Len(msg) : OccursAt(msg, p, i)

\* \w, for the characters of a lower-cased message.
WordChars ==
    { "a", "b", "c", "d", "e", "f", "g", "h", "i", "j", "k", "l", "m",
      "n", "o", "p", "q", "r", "s", "t", "u", "v", "w", "x", "y", "z",
      "0", "1", "2", "3", "4", "5", "6", "7", "8", "9", "_" }

\* re.search(r"\b(w)\b", msg): w is a word of word characters, so each \b asks
\* for the start, the end or a character that is no word character next to it.
WordMatch(msg, w) ==
    \E i \in 1..Len(msg) :
        /\ OccursAt(msg, w, i)
        /\ (i = 1 \/ msg[i - 1] \notin WordChars)
        /\ (i + Len(w) - 1 = Len(msg) \/ msg[i + Len(w)] \notin WordChars)

\* re.search(pattern, msg)
Search(pat, msg) ==
    \E w \in pat.alternatives : IF pat.bounded THEN WordMatch(msg, w) ELSE Contains(msg, w)

\* A label taken from the score before the word count is looked at.
Label_ScoreFirst(total_user_words, score) ==
    IF score >= 3 THEN "Positive"
    ELSE IF score <= -3 THEN "Negative"
    ELSE IF total_user_words < 5 THEN "Not Enuf Data"
    ELSE "Neutral"

\* _calculate_sentiment, "Determine sentiment".
Label(total_user_words, score) ==
    IF total_user_words < 5 THEN "Not Enuf Data"
    ELSE IF score >= 3 THEN "Positive"
    ELSE IF score <= -3 THEN "Negative"
    ELSE "Neutral"

Abs(n) == IF n < 0 THEN -n ELSE n

\* _calculate_sentiment(state, new_user_message).  confidence_e4 is the
\* confidence before round(min(confidence, 1.0), 2), in ten-thousandths.
CalculateSentiment(state, new_user_message) ==
    LET msg == Lower(Strip(new_user_message))
        word_count == WordCount(msg)
        pos == SelectSeq(POSITIVE, LAMBDA p : Contains(msg, p))
        neg == SelectSeq(NEGATIVE, LAMBDA n : Contains(msg, n))
        neu == SelectSeq(NEUTRAL, LAMBDA n : Contains(msg, n))
        eng == SelectSeq(ENGAGEMENT_PATTERNS, LAMBDA pat : Search(pat, msg))
        score == state.score + 2 * Len(pos) - 4 * Len(neg) + Len(eng)
        user_message_count == state.user_message_count + 1
        total_user_words == state.total_user_words + word_count
        signals == [positive_hits |-> state.signals.positive_hits \o pos,
                    negative_hits |-> state.signals.negative_hits \o neg,
                    neutral_hits |-> state.signals.neutral_hits \o neu,
                    engagement_hits |-> state.signals.engagement_hits
                                           \o [i \in 1..Len(eng) |-> eng[i].pattern]]
        signal_strength == Len(signals.positive_hits) + Len(signals.negative_hits)
                               + Len(signals.engagement_hits)
    IN  [score |-> score,
         sentiment |-> Label(total_user_words, score),
         confidence_e4 |-> Min({Min({Abs(score), 6}) * 1000 + Min({signal_strength, 4}) * 625
                                   + Min({user_message_count, 4}) * 375, 10000}),
         user_message_count |-> user_message_count,
         total_user_words |-> total_user_words,
         signals |-> signals]

Utterances ==
    { <<"n", "o", "t", " ", "i", "n", "t", "e", "r", "e", "s", "t", "e", "d">>,
      <<"s", "t", "o", "p", " ", "c", "a", "l", "l", "i", "n", "g">>,
      <<"y", "e", "s", ",", " ", "h", "o", "w", " ", "m", "u", "c", "h", " ", "d", "o", "e", "s", " ", "i", "t", " ", "c", "o", "s", "t", "?">>,
      <<"S", "u", "r", "e", ",", " ", "t", "e", "l", "l", " ", "m", "e", " ", "m", "o", "r", "e", " ", "a", "b", "o", "u", "t", " ", "t", "h", "e", " ", "b", "e", "n", "e", "f", "i", "t", "s">>,
      <<"m", "a", "y", "b", "e">>,
      <<"h", "a", "n", "g", " ", "u", "p">> }

\* One utterance is scored: the last state is cloned and updated.
Score(new_user_message) ==
    /\ Len(scorer.said) < MaxTurns
    /\ scorer' = [state |-> CalculateSentiment(scorer.state, new_user_message),
                  said |-> Append(scorer.said, new_user_message)]
    /\ UNCHANGED <<connVars, tableVars, stalled, pending, relay, relay2, reducer>>

InitScorer ==
    /\ InitManager
    /\ InitIdleServices

NextScorer == \E new_user_message \in Utterances : Score(new_user_message)

SpecScorer == InitScorer /\ [][NextScorer]_vars

\* The words the user has said so far.
RECURSIVE WordsSaid(_)
WordsSaid(said) ==
    IF said = <<>> THEN 0
    ELSE WordCount(Strip(said[Len(said)])) + WordsSaid(SubSeq(said, 1, Len(said) - 1))

\* C23: the label of a new state is "Not Enuf Data" (insufficient data)
\* whenever fewer than 5 user words have accumulated over the call, whatever
\* the score; otherwise Positive for a score >= 3, Negative for a score <= -3,
\* Neutral in between.  After "not interested" and "stop calling" (4 words,
\* two negative hits) the label is "Not Enuf Data".
C23_LabelFromWordsThenScore ==
    /\ scorer.said # <<>> =>
          scorer.state.sentiment =
              IF WordsSaid(scorer.said) < 5 THEN "Not Enuf Data"
              ELSE IF scorer.state.score >= 3 THEN "Positive"
              ELSE IF scorer.state.score <= -3 THEN "Negative"
              ELSE "Neutral"
    /\ scorer.said = << <<"n", "o", "t", " ", "i", "n", "t", "e", "r", "e", "s", "t", "e", "d">>,
                        <<"s", "t", "o", "p", " ", "c", "a", "l", "l", "i", "n", "g">> >>
          => /\ scorer.state.sentiment = "Not Enuf Data"
             /\ scorer.state.total_user_words = 4
             /\ Len(scorer.state.signals.negative_hits) = 2

\* "not interested" and "stop calling" have been scored: two negative hits
\* (score -8) and 4 words.
C23_Witness ==
    /\ scorer.said = << <<"n", "o", "t", " ", "i", "n", "t", "e", "r", "e", "s", "t", "e", "d">>,
                        <<"s", "t", "o", "p", " ", "c", "a", "l", "l", "i", "n", "g">> >>
    /\ scorer.state.score = -8

\* C24: "yes, how much does it cost?" scored from the initial state counts one
\* positive phrase (+2) and one engagement pattern (+1): score 3, label Positive.
C24_YesHowMuchScoresThree ==
    scorer.said = << <<"y", "e", "s", ",", " ", "h", "o", "w", " ", "m", "u", "c", "h", " ", "d", "o", "e", "s", " ", "i", "t", " ", "c", "o", "s", "t", "?">> >>
        => /\ scorer.state.score = 3
           /\ Len(scorer.state.signals.positive_hits) = 1
           /\ Len(scorer.state.signals.engagement_hits) = 1
           /\ scorer.state.sentiment = "Positive"

-----------------------------------------------------------------------------
(***************************************************************************)
(* The webhook and the dashboards of two tenants: the call c1 belongs to   *)
(* tenant tA and is assigned to nobody or to user u1; the dashboards of    *)
(* u1 and u2 of tenant tA and of u3 of tenant tB subscribe to it, and an   *)
(* event that names it arrives at the webhook URL of either tenant.        *)
(***************************************************************************)
SharingContexts ==
    {[user_id |-> "u1", role |-> "user", tenant_id |-> "tA"],
     [user_id |-> "u2", role |-> "user", tenant_id |-> "tA"],
     [user_id |-> "u3", role |-> "user", tenant_id |-> "tB"]}

SharingPayloads ==
    { [CallMessage("status-update", "c1") EXCEPT !.status = "in-progress"],
      [CallMessage("transcript", "c1") EXCEPT !.role = "user", !.transcript = <<"a">>],
      CallMessage("end-of-call-report", "c1"),
      CallMessage("hang", "c1") }

\* The table: c1 with a live transcript, assigned to user_id.
SharingCalls(user_id) ==
    << [NewCall("c1", "tA", 0) EXCEPT
           !.live_transcript = <<"U", "s", "e", "r", ":", " ", "a">>,
           !.user_id = user_id] >>

InitSharing ==
    /\ \E ctxs \in [Conns -> SharingContexts] :
         /\ wsCtx = ctxs
         /\ dashboard_clients = RegisterAll(ctxs, NumConns)
    /\ subscriptions = << >>
    /\ wsPc = [w \in Conns |-> "recv"]
    /\ alive = [w \in Conns |-> TRUE]
    /\ bc = IdleBroadcast
    /\ recv = [w \in Conns |-> 0]
    /\ stable = {}
    /\ stalled = {}
    /\ pending = [h \in 1..MaxEvents |-> <<>>]
    /\ relay = IdleRelay
    /\ relay2 = IdleRelay
    /\ reducer = IdleReducer
    /\ scorer = IdleScorer
    /\ \E user_id \in {None, "u1"} : calls = SharingCalls(user_id)
    /\ events = <<>>
    /\ hs = [h \in Handlers |-> IdleHandler]
    /\ clock = 1
    /\ bcLog = <<>>

NextSharing ==
    \/ \E client_id \in Tenants, m \in SharingPayloads : Webhook(1, client_id, m)
    \/ HandlerResumes(1)
    \/ SendReturns
    \/ \E w \in Conns : WsSubscribe(w, "c1")
    \/ \E w \in Conns : WsSnapshot(w)

SpecSharing == InitSharing /\ [][NextSharing]_vars

\* The broadcast call that runs: the one, of the calls its handler has made,
\* that the handler awaits.
Awaited ==
    LET h == CHOOSE g \in Handlers : hs[g].pc = "broadcast"
    IN  bcLog[Len(bcLog) - Len(pending[h])]

\* In this step connection w receives the message of the broadcast that runs.
ReceivesBroadcast(w) ==
    /\ bc.pc = "sending"
    /\ bc.cur = w
    /\ recv'[w] = recv[w] + 1

\* In this step connection w receives the snapshot it asked for by subscribing.
ReceivesSnapshot(w) == wsPc[w] = "snapshot" /\ wsPc'[w] = "recv"

\* C25: a call-upsert snapshot of a call is received only by connections of
\* the tenant that owns the call, also when the event for that call id arrived
\* under another tenant; and every CallEvent carries the tenant id of its Call.
C25_SnapshotUnderOwningTenant ==
    [][ /\ \A w \in Conns :
              (ReceivesBroadcast(w) /\ Awaited.fn = "broadcast_dashboard")
                  => wsCtx[w].tenant_id = GetCall(calls, Awaited.message.call.id).client_id
        /\ \A i \in 1..Len(events') :
              events'[i].client_id = GetCall(calls', events'[i].call_id).client_id
      ]_vars

\* C26: a connection receives the transcript of a call, as the snapshot that
\* answers its subscribe or as a later transcript-update, only when the call
\* belongs to the connection's own tenant.
C26_TranscriptWithinTenant ==
    [][ \A w \in Conns :
          /\ (ReceivesBroadcast(w) /\ Awaited.fn = "broadcast_transcript")
                => wsCtx[w].tenant_id = GetCall(calls, Awaited.call_id).client_id
          /\ ReceivesSnapshot(w)
                => \E c \in SubsOf(subscriptions, w) :
                      /\ HasCall(calls, c)
                      /\ TruthyStr(GetCall(calls, c).live_transcript)
                      /\ GetCall(calls, c).client_id = wsCtx[w].tenant_id
      ]_vars

\* C27: a connection that is no admin receives the call-upsert snapshots the
\* webhook broadcasts only for calls assigned to its own user id.
C27_SnapshotsToAssignedUser ==
    [][ \A w \in Conns :
          ( /\ ReceivesBroadcast(w)
            /\ Awaited.fn = "broadcast_dashboard"
            /\ wsCtx[w].role # "admin" )
              => GetCall(calls, Awaited.message.call.id).user_id = wsCtx[w].user_id
      ]_vars

\* C28: a connection that registers, subscribes or deregisters while a
\* broadcast is suspended in a send does not disturb the broadcast: the call
\* returns without raising, no connection gets the message twice, and every
\* connection that was eligible all along and is still registered at the
\* return has got it exactly once (unless its own send failed).
C28_RegistryChangeKeepsBroadcast ==
    /\ bc.pc # "raised"
    /\ \A w \in Conns : recv[w] <= 1
    /\ bc.pc = "returned" =>
          \A w \in stable \cap Registered(dashboard_clients) :
              recv[w] = 1 \/ InDead(bc, w)

NewBroadcasts == SubSeq(bcLog', Len(bcLog) + 1, Len(bcLog'))

C30_UpsertOnlyForFirstFragment ==
    reducer.frags # <<>> =>
        /\ reducer.first[Len(reducer.first)]
              => (~TruthyStr(reducer.prev) /\ TruthyStr(reducer.live))
        /\ TruthyStr(reducer.prev) => ~reducer.first[Len(reducer.first)]

\* The first fragment triggered the call-upsert; the second, longer than the
\* whole transcript before it, did not.
C30_Witness ==
    /\ Len(reducer.frags) = 2
    /\ reducer.first = <<TRUE, FALSE>>
    /\ Len(reducer.frags[2].text) > Len(reducer.prev)

\* The fragment is empty or consists of whitespace only.
BlankFragment(text) == ~TruthyStr(text) \/ Strip(text) = <<>>

\* C31: a transcript event whose fragment is empty or consists only of
\* whitespace leaves the live transcript as it was and appends no chunk,
\* for every speaker role and every live transcript before it.
C31_BlankFragmentChangesNothing ==
    (reducer.frags # <<>> /\ BlankFragment(LastFragment.text))
        => /\ reducer.live = reducer.prev
           /\ ~TruthyStr(reducer.chunk)

-----------------------------------------------------------------------------
(***************************************************************************)
(* End-of-call reports against the table: reports with several structured *)
(* outputs of one category, with and without a transcript, a recording, a  *)
(* duration and the two timestamps, among events of the other categories,  *)
(* all for call c1 of tenant tA.                                           *)
(***************************************************************************)
ReportPayloads ==
    { [CallMessage("end-of-call-report", "c1") EXCEPT
          !.recordingUrl = "https://provider/rec", !.transcript = <<"h", "i", "\n">>,
          !.startedAt = IsoTime(1), !.endedAt = IsoTime(3),
          !.durationSeconds = Number(5),
          !.structuredOutputs =
              << [name |-> "Call Disposition", result |-> "Sold", is_dict |-> TRUE],
                 [name |-> "Customer Sentiment", result |-> "Positive", is_dict |-> TRUE],
                 [name |-> "disposition", result |-> "Lost", is_dict |-> TRUE],
                 [name |-> "sentiment", result |-> "Negative", is_dict |-> TRUE] >>],
      CallMessage("end-of-call-report", "c1"),
      [CallMessage("end-of-call-report", "c1") EXCEPT !.transcript = <<" ">>],
      [CallMessage("end-of-call-report", "c1") EXCEPT
          !.startedAt = IsoTime(1), !.endedAt = IsoTime(3), !.durationSeconds = Number(0),
          !.transcript = <<"b", "y", "e">>],
      [CallMessage("end-of-call-report", "c1") EXCEPT
          !.startedAt = IsoTime(1), !.endedAt = IsoTime(3)],
      [CallMessage("status-update", "c1") EXCEPT !.status = "in-progress"],
      [CallMessage("transcript", "c1") EXCEPT !.role = "user", !.transcript = <<"a">>],
      CallMessage("hang", "c1") }

InitReport ==
    /\ InitManager
    /\ calls = <<>>
    /\ events = <<>>
    /\ hs = [h \in Handlers |-> IdleHandler]
    /\ clock = 1
    /\ bcLog = <<>>

NextReport ==
    \/ \E h \in Handlers, m \in ReportPayloads : Webhook(h, "tA", m)
    \/ \E h \in Handlers, stored \in BOOLEAN : DownloadEnds(h, stored)

SpecReport == InitReport /\ [][NextReport]_vars

\* The handler of request h commits and returns ok in this step.
Completes(h, type) ==
    /\ ~Processed(h)
    /\ Processed(h)'
    /\ hs'[h].result.type = type

\* The structured outputs whose name contains "disposition" ("sentiment").
DispositionEntries(outputs) ==
    {i \in 1..Len(outputs) : outputs[i].is_dict /\ HasDisposition(outputs[i].name)}

SentimentEntries(outputs) ==
    {i \in 1..Len(outputs) : outputs[i].is_dict /\ HasSentiment(outputs[i].name)}

\* C32: when several structured outputs of an end-of-call-report have a name
\* that contains "disposition" (or "sentiment"), the call's disposition
\* (sentiment) is the result of the first of them in iteration order.
C32_FirstStructuredOutputWins ==
    [][ \A h \in Handlers :
          Completes(h, "end-of-call-report") =>
              LET outputs == hs'[h].message.structuredOutputs
                  call == GetCall(calls', hs'[h].result.call_id)
              IN  /\ Cardinality(DispositionEntries(outputs)) > 1
                        => call.disposition = outputs[Min(DispositionEntries(outputs))].result
                  /\ Cardinality(SentimentEntries(outputs)) > 1
                        => call.sentiment = outputs[Min(SentimentEntries(outputs))].result
      ]_vars

\* C33: once the final transcript of a call is set to a non-empty value, no
\* later event of any category changes it; an end-of-call-report without a
\* transcript, with an empty one or with one of whitespace only leaves it as
\* it is.
C33_FinalTranscriptImmutable ==
    [][ \A i \in 1..Len(calls) :
            TruthyStr(calls[i].final_transcript) =>
                calls'[i].final_transcript = calls[i].final_transcript
      ]_vars

-----------------------------------------------------------------------------
(***************************************************************************)
(* Status updates against the table: messages that supply every value,     *)
(* none, empty ones or others, for the calls c1 and c2 of tenant tA.       *)
(***************************************************************************)
StatusValues ==
    { [status |-> "in-progress", customer_number |-> "p1",
       monitor_listenUrl |-> "wss://listen", monitor_controlUrl |-> "https://control"],
      [status |-> None, customer_number |-> None,
       monitor_listenUrl |-> None, monitor_controlUrl |-> None],
      [status |-> "", customer_number |-> "",
       monitor_listenUrl |-> "", monitor_controlUrl |-> ""],
      [status |-> "ended", customer_number |-> "p2",
       monitor_listenUrl |-> None, monitor_controlUrl |-> ""],
      [status |-> "ringing", customer_number |-> None,
       monitor_listenUrl |-> "wss://other", monitor_controlUrl |-> None] }

StatusMessages ==
    { [CallMessage("status-update", call_id) EXCEPT
          !.status = v.status, !.customer_number = v.customer_number,
          !.monitor_listenUrl = v.monitor_listenUrl,
          !.monitor_controlUrl = v.monitor_controlUrl] :
        call_id \in CallIds, v \in StatusValues }

NextStatus == \E h \in Handlers, m \in StatusMessages : HandleStatusUpdate(h, "tA", m)

SpecStatus == InitReport /\ [][NextStatus]_vars

\* The value of a column before the step: None for a call that the step creates.
Before(call_id, column) ==
    IF HasCall(calls, call_id) THEN GetCall(calls, call_id)[column] ELSE None

\* C34: a status-update leaves the phone number, the listen endpoint and the
\* control endpoint of its call as they were whenever the message supplies no
\* value or an empty one for them, and sets the status of the call to the
\* status of the message whenever the message supplies one.
C34_StatusUpdateKeepsUnsupplied ==
    [][ \A h \in Handlers :
          Completes(h, "status-update") =>
              LET m == hs'[h].message
                  id == hs'[h].result.call_id
                  call == GetCall(calls', id)
              IN  /\ ~Truthy(m.customer_number)
                        => call.phone_number = Before(id, "phone_number")
                  /\ ~Truthy(m.monitor_listenUrl)
                        => call.listen_url = Before(id, "listen_url")
                  /\ ~Truthy(m.monitor_controlUrl)
                        => call.control_url = Before(id, "control_url")
                  /\ Truthy(m.status) => call.status = m.status
      ]_vars

\* A status-update with empty values was processed for a call that held a
\* phone number and both endpoints, after one that supplied another status.
C34_Witness ==
    /\ Len(events) = 2
    /\ events[1].call_id = events[2].call_id
    /\ events[1].payload.customer_number = "p1"
    /\ events[2].payload.customer_number = ""
    /\ events[2].payload.monitor_listenUrl = ""
    /\ LET call == GetCall(calls, events[2].call_id)
       IN  /\ call.phone_number = "p1"
           /\ call.listen_url = "wss://listen"
           /\ call.control_url = "https://control"
           /\ call.status = "in-progress"

\* The download that handler h awaits ends in this step without a stored
\* recording: a response that is no 200, an exception or a failed upload.
RecordingFails(h) ==
    /\ hs[h].pc = "download"
    /\ DownloadEnds(h, FALSE)

\* C35: when the recording cannot be fetched or stored, the
\* end-of-call-report is still processed to completion: the call is marked
\* ended, one CallEvent is appended, the snapshot of the call is broadcast,
\* and the recording reference of the call is not set by the event.
C35_RecordingFailureStillProcessed ==
    [][ \A h \in Handlers :
          RecordingFails(h) =>
              LET id == hs[h].tx.call.id
              IN  /\ Processed(h)'
                  /\ HasCall(calls', id)
                  /\ GetCall(calls', id).status = "ended"
                  /\ GetCall(calls', id).recording_url = Before(id, "recording_url")
                  /\ Len(events') = Len(events) + 1
                  /\ events'[Len(events')].call_id = id
                  /\ Len(NewBroadcasts) = 1
                  /\ NewBroadcasts[1].fn = "broadcast_dashboard"
                  /\ NewBroadcasts[1].message.call.id = id
      ]_vars

\* C36: after an end-of-call-report the duration of the call is the duration
\* the message supplies, whatever its value (0 included); when the message
\* supplies none and started-at and ended-at are both known, it is ended-at
\* minus started-at in whole seconds.
C36_DurationSuppliedOrComputed ==
    [][ \A h \in Handlers :
          Completes(h, "end-of-call-report") =>
              LET m == hs'[h].message
                  call == GetCall(calls', hs'[h].result.call_id)
              IN  /\ m.durationSeconds.k = "number"
                        => call.duration = <<m.durationSeconds.v>>
                  /\ ( /\ m.durationSeconds.k = "absent"
                       /\ m.analysis_durationSeconds.k = "absent"
                       /\ call.started_at # <<>>
                       /\ call.ended_at # <<>> )
                        => call.duration = <<call.ended_at[1].t - call.started_at[1].t>>
      ]_vars

-----------------------------------------------------------------------------
(***************************************************************************)
(* SentimentService.update_call_sentiment: one task per update.  A task    *)
(* reads the Call, appends its state and commits without suspending, then  *)
(* awaits the broadcast of the sentiment-update, during which other tasks  *)
(* run.                                                                    *)
(*   idle -> (broadcast | done) -> done                                    *)
(***************************************************************************)

\* The state that a history and an utterance give, computed from the zero
\* state instead of the last one.
NextSentimentState_FromScratch(current_history, completed_user_message) ==
    CalculateSentiment(IdleScorer.state, completed_user_message)
        @@ [turn |-> Len(current_history) + 1,
            completed_user_message |-> completed_user_message]

\* update_call_sentiment, steps 2 and 3: the last state cloned (or the initial
\* state), _calculate_sentiment applied to it, then the turn number and the
\* utterance.
NextSentimentState(current_history, completed_user_message) ==
    LET last_state == IF current_history # <<>>
                      THEN current_history[Len(current_history)]
                      ELSE IdleScorer.state
        new_state == [f \in DOMAIN IdleScorer.state |-> last_state[f]]
    IN  CalculateSentiment(new_state, completed_user_message)
            @@ [turn |-> Len(current_history) + 1,
                completed_user_message |-> completed_user_message]

\* update_call_sentiment(call_id, completed_user_message) up to
\* `await manager.broadcast_transcript(payload, call_id)`; a call that is not
\* found ends the task.
UpdateCallSentiment(h, call_id, completed_user_message) ==
    /\ hs[h].pc = "idle"
    /\ \A g \in Handlers : g < h => hs[g].pc # "idle"
    /\ IF ~HasCall(calls, call_id)
       THEN /\ hs' = [hs EXCEPT ![h].pc = "done",
                                ![h].result = [NoResult EXCEPT !.state = "returned",
                                                              !.type = "sentiment-update",
                                                              !.call_id = call_id]]
            /\ UNCHANGED <<calls, bcLog>>
       ELSE LET call == GetCall(calls, call_id)
                updated_state == NextSentimentState(call.sentiment_state,
                                                    completed_user_message)
            IN  /\ calls' = [i \in 1..Len(calls) |->
                               IF calls[i].id = call_id
                               THEN [calls[i] EXCEPT
                                        !.sentiment_state = Append(@, updated_state),
                                        !.sentiment = updated_state.sentiment]
                               ELSE calls[i]]
                /\ bcLog' = Append(bcLog, TranscriptCall(SentimentMessage(call, updated_state),
                                                         call_id))
                /\ hs' = [hs EXCEPT ![h].pc = "broadcast",
                                    ![h].result = [NoResult EXCEPT !.state = "held",
                                                                  !.ok = TRUE,
                                                                  !.type = "sentiment-update",
                                                                  !.call_id = call_id]]
    /\ UNCHANGED <<events, clock, mgrVars>>

\* The broadcast of the sentiment-update is over: it returned, or its
\* exception was logged by `except Exception`.
SentimentBroadcastEnds(h) ==
    /\ hs[h].pc = "broadcast"
    /\ hs[h].result.type = "sentiment-update"
    /\ hs' = [hs EXCEPT ![h].pc = "done", ![h].result.state = "returned"]
    /\ UNCHANGED <<calls, events, clock, bcLog, mgrVars>>

NextSentiment ==
    \/ \E h \in Handlers, call_id \in CallIds, u \in Utterances :
          UpdateCallSentiment(h, call_id, u)
    \/ \E h \in Handlers : SentimentBroadcastEnds(h)

SpecSentiment == InitReducer /\ [][NextSentiment]_vars

\* The sentiment updates made for call c so far.
UpdatesOf(c) == {h \in Handlers : hs[h].result.type = "sentiment-update" /\ hs[h].result.ok
                                   /\ hs[h].result.call_id = c}

\* C37: each sentiment update of a call appends exactly one state to the
\* sentiment-state history of the call, derived from the last state (or the
\* zero state) by the deltas of the one utterance; the states already there
\* stay as they are; after N updates, in any interleaving, the history holds
\* N states with the turn numbers 1..N.
C37_HistoryGrowsByOneState ==
    [][ \A i \in 1..Len(calls) :
          LET old == calls[i].sentiment_state
              new == calls'[i].sentiment_state
              prev == IF old = <<>> THEN IdleScorer.state ELSE old[Len(old)]
              N == Cardinality(UpdatesOf(calls[i].id)')
          IN  /\ Len(new) = N
              /\ \A k \in 1..N : new[k].turn = k
              /\ SubSeq(new, 1, Len(old)) = old
              /\ Len(new) \in {Len(old), Len(old) + 1}
              /\ Len(new) = Len(old) + 1 =>
                    LET s == new[Len(new)]
                        delta == CalculateSentiment(IdleScorer.state, s.completed_user_message)
                    IN  /\ s.score = prev.score + delta.score
                        /\ s.user_message_count = prev.user_message_count + 1
                        /\ s.total_user_words = prev.total_user_words + delta.total_user_words
                        /\ s.signals.negative_hits
                              = prev.signals.negative_hits \o delta.signals.negative_hits
      ]_vars

\* Two updates of call c1 overlapped (the first still awaits its broadcast)
\* and the history holds their two states, the second built on the first.
C37_Witness ==
    /\ hs[1].pc = "broadcast"
    /\ hs[2].pc = "broadcast"
    /\ LET history == GetCall(calls, "c1").sentiment_state
       IN  /\ Len(history) = 2
           /\ history[1].score = -4
           /\ history[2].score = -8
           /\ history[2].turn = 2

-----------------------------------------------------------------------------
\* C38: when the handler of a registered dashboard connection has ended, for
\* whatever reason, the connection is in neither the registry nor the
\* subscription map, and no broadcast starts a send on it afterwards.
C38_EndedHandlerIsUnregistered ==
    [][ \A w \in Conns :
          wsPc'[w] = "closed" =>
             /\ w \notin Registered(dashboard_clients')
             /\ w \notin DOMAIN subscriptions'
             /\ (wsPc[w] = "closed" /\ bc'.pc = "sending" /\ bc'.cur = w)
                   => (bc.pc = "sending" /\ bc.cur = w)
      ]_vars

-----------------------------------------------------------------------------
(***************************************************************************)
(* Two listener connections.  listen_proxy_websocket keeps no record of    *)
(* the sessions it serves: the second connection runs the same handler on  *)
(* its own frame (relay2), whatever the first one (relay) is doing.        *)
(***************************************************************************)

\* The second connection arrives, of `user` for call_id: as RelayOpens.
Relay2Opens(user, call_id) ==
    /\ relay.pc # "new"
    /\ relay2.pc = "new"
    /\ LET chk == ListenCheck(calls, call_id, user)
       IN  relay2' = IF chk.ok
                     THEN [relay2 EXCEPT !.pc = "connecting", !.user = user,
                                         !.call_id = call_id, !.down = "open",
                                         !.up = "connecting", !.attempts = @ + 1]
                     ELSE [relay2 EXCEPT !.pc = "refused", !.user = user,
                                         !.call_id = call_id, !.down = "closed",
                                         !.code = chk.code]
    /\ UNCHANGED <<connVars, tableVars, stalled, pending, relay, unitVars>>

\* Its upstream handshake succeeds.
Upstream2Accepts ==
    /\ relay2.pc = "connecting"
    /\ relay2' = [relay2 EXCEPT !.pc = "relaying", !.up = "open", !.fwd = "running"]
    /\ UNCHANGED <<connVars, tableVars, stalled, pending, relay, unitVars>>

\* Its websockets.connect raises.
Upstream2Refuses ==
    /\ relay2.pc = "connecting"
    /\ relay2' = [relay2 EXCEPT !.pc = "ended", !.up = "failed", !.down = "closed",
                                !.code = 1011]
    /\ UNCHANGED <<connVars, tableVars, stalled, pending, relay, unitVars>>

\* Its client disconnects: the main loop leaves.
Downstream2Disconnects ==
    /\ relay2.pc = "relaying"
    /\ relay2.down = "open"
    /\ relay2' = [relay2 EXCEPT !.pc = "ended", !.fwd = "cancelled",
                                !.up = "closed_by_proxy", !.down = "closed"]
    /\ UNCHANGED <<connVars, tableVars, stalled, pending, relay, unitVars>>

NextListeners ==
    \/ \E user \in RelayUsers, call_id \in {"c1", "c2"} : RelayOpens(user, call_id)
    \/ UpstreamAccepts
    \/ UpstreamRefuses
    \/ DownstreamDisconnects
    \/ \E user \in RelayUsers, call_id \in {"c1", "c2"} : Relay2Opens(user, call_id)
    \/ Upstream2Accepts
    \/ Upstream2Refuses
    \/ Downstream2Disconnects

SpecListeners == InitRelay /\ [][NextListeners]_vars

\* C39: at most one relay session of a call is relaying at a time: while one
\* listener of a call is being relayed, a second listen request for the same
\* call gets no upstream connection of its own.
C39_OneRelayPerCall ==
    (relay.pc = "relaying" /\ relay2.call_id = relay.call_id)
        => (relay2.pc # "relaying" /\ relay2.up \notin {"connecting", "open"})

-----------------------------------------------------------------------------
\* The message brings a lifecycle status: a status of its own, or the end of
\* the call.
SuppliesStatus(m) == Truthy(m.status) \/ m.type = "end-of-call-report"

\* C40: a Call created by the first event that references its id has the
\* status "unknown", and keeps it until an event supplies a status.
C40_NewCallHasStatusUnknown ==
    [][ \A h \in Handlers :
          (~Processed(h) /\ Processed(h)' /\ ~SuppliesStatus(hs'[h].message)) =>
              LET id == hs'[h].result.call_id
                  call == GetCall(calls', id)
              IN  /\ ~HasCall(calls, id) => call.status = "unknown"
                  /\ (HasCall(calls, id) /\ GetCall(calls, id).status = "unknown")
                        => call.status = "unknown"
      ]_vars

=============================================================================
